---- MODULE Spec2Model ----
(***************************************************************************)
(* Comment visibility and threaded retrieval of lemmy:                     *)
(*   crates/db_views/src/comment/comment_view.rs                           *)
(*     CommentView::joins, CommentView::read, CommentQuery::list           *)
(* The store (the joined tables) is the state; CommentQuery::list and      *)
(* CommentView::read are requests answered from one store state.           *)
(*   crates/apub/src/api/user_settings_backup.rs                           *)
(*     export_settings, import_settings, fetch_and_import                  *)
(*   crates/api/api/src/post/feature.rs                                    *)
(*     feature_post                                                        *)
(***************************************************************************)
EXTENDS Integers, Sequences, FiniteSets, Bags, TLC

VARIABLES
  comment,              \* comment table: id -> row
  post,                 \* post table: id -> row
  community,            \* community table: id -> row
  person,               \* person table: id -> row
  local_user,           \* local_user table: id -> row
  local_user_language,  \* set of <<local_user_id, language_id>>
  community_actions,    \* <<person_id, community_id>> -> row (all NULL = no row)
  person_actions,       \* <<person_id, target_id>> -> row
  instance_actions,     \* <<person_id, instance_id>> -> row
  comment_actions,      \* <<person_id, comment_id>> -> row
  now,                  \* the store's clock, in seconds
  comment_id_seq,       \* last id handed out by the comment table's serial
  writes,               \* number of store writes made so far
  pc,                   \* "idle" | "listed" | "read"
  request,              \* the request being answered
  response,             \* its answer
  paging,               \* a client's walk through the pages of one listing
  backup_import,        \* the last settings import: its backup, its task, what it imported
  fetch,                \* a running fetch_and_import: its futures and results
  mod_feature_post,     \* mod_feature_post table: the rows in the order created
  activity_queue        \* ActivityChannel: the activities submitted, in order

store == <<comment, post, community, person, local_user, local_user_language,
           community_actions, person_actions, instance_actions, comment_actions,
           now, comment_id_seq>>

vars == <<comment, post, community, person, local_user, local_user_language,
          community_actions, person_actions, instance_actions, comment_actions,
          now, comment_id_seq, writes, pc, request, response, paging,
          backup_import, fetch, mod_feature_post, activity_queue>>

\* Option::None, and SQL NULL in an id or timestamp column.
None == 0

\* Number of store writes explored from the initial store.
MaxWrites == 2

----------------------------------------------------------------------------
(* The universe of the fixture, after tests::init_data. *)

PersonIds == {1, 2}
LocalUserIds == {1, 2}
InstanceIds == {1, 2}
CommunityIds == {1, 2}
PostIds == {1, 2}
UNDETERMINED_ID == 0
LanguageIds == {UNDETERMINED_ID, 1}

ListingTypes == {"All", "Local", "Subscribed", "ModeratorView"}
CommentSortTypes == {"Hot", "Controversial", "New", "Old", "Top"}
CommunityVisibilities == {"Public", "LocalOnlyPrivate", "Private"}
CommunityFollowerStates == {"Pending", "Accepted"}

NullCommunityActions ==
  [followed |-> FALSE, follow_state |-> "NULL", became_moderator |-> FALSE]
NullPersonActions == [blocked |-> FALSE]
NullInstanceActions == [blocked |-> FALSE]
NullCommentActions == [like_score |-> None]
NullLocalUser ==
  [id |-> None, person_id |-> None, admin |-> FALSE, show_nsfw |-> FALSE,
   show_bot_accounts |-> FALSE]

----------------------------------------------------------------------------
(* Option<&LocalUser> helpers (LocalUserOptionHelper).  A request names the *)
(* local user it is made for; the LocalUser value handed to read and list   *)
(* is that user's row as the store holds it when the request is answered.   *)

LocalUserOf(u) == IF u = None THEN NullLocalUser ELSE local_user[u]

person_id(u) == IF u = None THEN None ELSE local_user[u].person_id

local_user_id(u) == u

is_admin(u) == IF u = None THEN FALSE ELSE local_user[u].admin

\* No viewer: the site's content warning decides (tests::comment_listings_hide_nsfw).
\* A viewer: the preference, and for listings the site's content warning.
show_nsfw(u, site) ==
  IF u = None THEN site.content_warning
  ELSE local_user[u].show_nsfw /\ site.content_warning

show_bot_accounts(u) == IF u = None THEN TRUE ELSE local_user[u].show_bot_accounts

\* Communities restricted to the local instance are hidden from callers
\* without a login (tests::local_only_instance).
visible_communities_only(u, r) ==
  u = None => r.community.visibility \notin {"LocalOnlyPublic", "LocalOnlyPrivate"}

\* The joined block rows: the creator is blocked, or the instance is; the
\* viewer's own comments are never filtered.
filter_blocked(r) ==
  \/ (r.local_user.person_id # None /\ r.comment.creator_id = r.local_user.person_id)
  \/ (~r.instance_actions.blocked /\ ~r.person_actions.blocked)

\* An admin, or a moderator of the row's community.
local_user_can_mod(r) ==
  r.local_user.admin \/ r.community_actions.became_moderator

----------------------------------------------------------------------------
(* CommentView::joins: one joined row per comment.  A left join whose key   *)
(* compares with a NULL person id finds no row.                             *)

community_actions_join(my_person_id, community_id) ==
  IF my_person_id = None THEN NullCommunityActions
  ELSE community_actions[<<my_person_id, community_id>>]

comment_actions_join(my_person_id, comment_id) ==
  IF my_person_id = None \/ <<my_person_id, comment_id>> \notin DOMAIN comment_actions
  THEN NullCommentActions
  ELSE comment_actions[<<my_person_id, comment_id>>]

person_actions_join(my_person_id, creator_id) ==
  IF my_person_id = None THEN NullPersonActions
  ELSE person_actions[<<my_person_id, creator_id>>]

instance_actions_join(my_person_id, instance_id) ==
  IF my_person_id = None THEN NullInstanceActions
  ELSE instance_actions[<<my_person_id, instance_id>>]

\* Mutant: the join of local_user is left out.
local_user_join_missing(my_person_id) == NullLocalUser

local_user_join(my_person_id) ==
  IF \E u \in DOMAIN local_user : local_user[u].person_id = my_person_id
  THEN local_user[CHOOSE u \in DOMAIN local_user : local_user[u].person_id = my_person_id]
  ELSE NullLocalUser

joins(my_person_id, c) ==
  LET co == comment[c]
      po == post[co.post_id]
      cm == community[po.community_id]
  IN [comment |-> co,
      person |-> person[co.creator_id],
      post |-> po,
      community |-> cm,
      community_actions |-> community_actions_join(my_person_id, po.community_id),
      comment_actions |-> comment_actions_join(my_person_id, c),
      person_actions |-> person_actions_join(my_person_id, co.creator_id),
      instance_actions |-> instance_actions_join(my_person_id, cm.instance_id),
      creator_community_actions |->
        community_actions[<<co.creator_id, po.community_id>>],
      local_user |-> local_user_join(my_person_id)]

\* CommentView::as_select: the projection of a joined row.  The body of a
\* removed or deleted comment is blanked unless the viewer can moderate it.
as_select(r) ==
  [comment |->
     [r.comment EXCEPT !.content =
        IF (~(r.comment.deleted \/ r.comment.removed)) \/ local_user_can_mod(r)
        THEN @ ELSE ""],
   community_actions |-> r.community_actions,
   comment_actions |-> r.comment_actions,
   person_actions |-> r.person_actions,
   instance_actions |-> r.instance_actions,
   creator_community_actions |-> r.creator_community_actions,
   can_mod |-> local_user_can_mod(r)]

----------------------------------------------------------------------------
(* CommentView::read *)

\* Private community content: accepted followers and admins only.
read_private_filter(u, r) ==
  (~is_admin(u)) =>
     (r.community.visibility # "Private"
        \/ r.community_actions.follow_state = "Accepted")

\* Mutant: read also hides what the viewer has blocked.
read_filter_blocked(comment_id, u, r) ==
  /\ r.comment.id = comment_id
  /\ visible_communities_only(u, r)
  /\ read_private_filter(u, r)
  /\ (u # None => filter_blocked(r))

\* Mutant: read also hides federation-pending comments of other persons.
read_filter_pending(comment_id, u, r) ==
  /\ r.comment.id = comment_id
  /\ visible_communities_only(u, r)
  /\ read_private_filter(u, r)
  /\ (~r.comment.federation_pending \/ r.comment.creator_id = person_id(u))

\* Mutant: read also hides NSFW content from viewers not asking for it.
read_filter_nsfw(comment_id, u, r) ==
  /\ r.comment.id = comment_id
  /\ visible_communities_only(u, r)
  /\ read_private_filter(u, r)
  /\ ((u = None \/ ~LocalUserOf(u).show_nsfw) => (~r.post.nsfw /\ ~r.community.nsfw))

read_filter(comment_id, u, r) ==
  /\ r.comment.id = comment_id
  /\ visible_communities_only(u, r)
  /\ read_private_filter(u, r)

NotFound == [ok |-> FALSE, error |-> "NotFound", items |-> <<>>]

read(comment_id, u) ==
  LET rows == {c \in DOMAIN comment :
                 read_filter(comment_id, u, joins(person_id(u), c))}
  IN IF rows = {} THEN NotFound
     ELSE [ok |-> TRUE, error |-> "",
           items |-> <<as_select(joins(person_id(u), CHOOSE c \in rows : TRUE))>>]

----------------------------------------------------------------------------
(* CommentQuery::list.  A query o has the fields of CommentQuery; an        *)
(* Option of an id is None or the id, an Option of a number is <<>> or      *)
(* <<n>>, an absent parent_path is <<>>, an absent flag is FALSE.           *)

IsSome(opt) == opt # <<>>
Unwrap(opt) == opt[1]

\* Mutant: only the proper descendants of parent_path are contained.
contained_by_proper(path, parent_path) ==
  /\ Len(parent_path) < Len(path)
  /\ SubSeq(path, 1, Len(parent_path)) = parent_path

\* ltree <@ : path is parent_path or one of its descendants.
contained_by(path, parent_path) ==
  /\ Len(parent_path) <= Len(path)
  /\ SubSeq(path, 1, Len(parent_path)) = parent_path

nlevel(path) == Len(path)

\* subpath(path, 0, -1): the path without its last label.
subpath_parent(path) == SubSeq(path, 1, Len(path) - 1)

list_scope_filter(o, r) ==
  /\ (o.creator_id # None => r.comment.creator_id = o.creator_id)
  /\ (o.post_id # None => r.comment.post_id = o.post_id)
  /\ (o.parent_path # <<>> => contained_by(r.comment.path, o.parent_path))
  /\ (o.community_id # None => r.post.community_id = o.community_id)

\* Mutant: a Local listing is filtered like an All listing.
list_listing_type_filter_local_as_all(o, r) ==
  CASE o.listing_type = "Subscribed" -> r.community_actions.followed
    [] o.listing_type = "Local" -> TRUE
    [] o.listing_type = "All" -> TRUE
    [] o.listing_type = "ModeratorView" -> r.community_actions.became_moderator

list_listing_type_filter(o, r) ==
  CASE o.listing_type = "Subscribed" -> r.community_actions.followed
    [] o.listing_type = "Local" -> r.community.local
    [] o.listing_type = "All" -> TRUE
    [] o.listing_type = "ModeratorView" -> r.community_actions.became_moderator

\* Mutant: disliked_only is looked at before liked_only.
list_liked_filter_disliked_first(o, r) ==
  LET my_id == person_id(o.local_user)
  IN my_id # None =>
       IF o.disliked_only
       THEN r.comment.creator_id # my_id /\ r.comment_actions.like_score = -1
       ELSE IF o.liked_only
       THEN r.comment.creator_id # my_id /\ r.comment_actions.like_score = 1
       ELSE TRUE

list_liked_filter(o, r) ==
  LET my_id == person_id(o.local_user)
  IN my_id # None =>
       IF o.liked_only
       THEN r.comment.creator_id # my_id /\ r.comment_actions.like_score = 1
       ELSE IF o.disliked_only
       THEN r.comment.creator_id # my_id /\ r.comment_actions.like_score = -1
       ELSE TRUE

list_bot_filter(o, r) ==
  (~show_bot_accounts(o.local_user)) => ~r.person.bot_account

\* Mutant: the language filter is applied to ModeratorView listings too.
list_language_filter_moderator_view(o, r) ==
  o.local_user # None =>
     <<local_user_id(o.local_user), r.comment.language_id>> \in local_user_language

\* Filter out the rows with missing languages
list_language_filter(o, r) ==
  (o.local_user # None /\ o.listing_type # "ModeratorView") =>
     <<local_user_id(o.local_user), r.comment.language_id>> \in local_user_language

\* Mutant: the block filter is left out.
list_blocked_filter_missing(o, r) == TRUE

list_blocked_filter(o, r) ==
  (o.local_user # None /\ o.listing_type # "ModeratorView") => filter_blocked(r)

\* Mutant: only the post's NSFW flag is looked at.
list_nsfw_filter_post_only(o, site, r) ==
  (~show_nsfw(o.local_user, site)) => ~r.post.nsfw

\* Mutant: NSFW content is hidden whatever show_nsfw says.
list_nsfw_filter_always(o, site, r) == ~r.post.nsfw /\ ~r.community.nsfw

list_nsfw_filter(o, site, r) ==
  (~show_nsfw(o.local_user, site)) => (~r.post.nsfw /\ ~r.community.nsfw)

\* Mutant: the federation_pending filter is left out.
list_federation_pending_filter_missing(o, r) == TRUE

list_federation_pending_filter(o, r) ==
  \/ ~r.comment.federation_pending
  \/ (person_id(o.local_user) # None
        /\ r.comment.creator_id = person_id(o.local_user))

\* Mutant: the private-community filter is left out.
list_private_filter_missing(o, r) == TRUE

\* Mutant: any follow, also a pending one, opens a private community.
list_private_filter_any_follow(o, r) ==
  (~is_admin(o.local_user)) =>
     (r.community.visibility # "Private"
        \/ r.community_actions.follow_state # "NULL")

list_private_filter(o, r) ==
  (~is_admin(o.local_user)) =>
     (r.community.visibility # "Private"
        \/ r.community_actions.follow_state = "Accepted")

\* max_depth and depth_limit are i32.
I32_MAX == 2147483647
I32_MIN == (0 - I32_MAX) - 1

\* n + max_depth in i32, for a count n >= 0: the sum leaves the range when
\* max_depth > I32_MAX - n, and a build without overflow checks wraps it.
i32_add_overflows(n, max_depth) == max_depth > I32_MAX - n

i32_wrapping_add(n, max_depth) ==
  IF i32_add_overflows(n, max_depth)
  THEN I32_MIN + ((max_depth - (I32_MAX - n)) - 1)
  ELSE n + max_depth

\* The number of labels added to max_depth.
depth_base(o) == IF o.parent_path # <<>> THEN Len(o.parent_path) ELSE 1

\* Mutant: the root label 0 is not counted.
depth_limit_without_root(o) ==
  i32_wrapping_add(depth_base(o) - 1, Unwrap(o.max_depth))

\* A Max depth given means its a tree fetch
depth_limit(o) == i32_wrapping_add(depth_base(o), Unwrap(o.max_depth))

\* The addition of depth_limit leaves i32: a build with overflow checks
\* panics there.
depth_limit_overflows(o) ==
  IsSome(o.max_depth) /\ i32_add_overflows(depth_base(o), Unwrap(o.max_depth))

list_depth_filter(o, r) ==
  IsSome(o.max_depth) => nlevel(r.comment.path) <= depth_limit(o)

list_time_range_filter(o, r) ==
  IsSome(o.time_range_seconds) =>
     r.comment.published > now - Unwrap(o.time_range_seconds)

\* The filters of the query, by name; a row is listed when all hold.
list_filters(o, site, r) ==
  [scope |-> list_scope_filter(o, r),
   listing_type |-> list_listing_type_filter(o, r),
   liked |-> list_liked_filter(o, r),
   bot |-> list_bot_filter(o, r),
   language |-> list_language_filter(o, r),
   blocked |-> list_blocked_filter(o, r),
   nsfw |-> list_nsfw_filter(o, site, r),
   visible_communities |-> visible_communities_only(o.local_user, r),
   federation_pending |-> list_federation_pending_filter(o, r),
   private |-> list_private_filter(o, r),
   depth |-> list_depth_filter(o, r),
   time_range |-> list_time_range_filter(o, r)]

list_filter(o, site, r) ==
  \A k \in DOMAIN list_filters(o, site, r) : list_filters(o, site, r)[k]

\* limit_and_offset of db_schema::utils: the flat listing's page and limit.
FETCH_LIMIT_DEFAULT == 10
FETCH_LIMIT_MAX == 50
TREE_FETCH_LIMIT == 300

limit_and_offset(page, limit) ==
  LET pg == IF IsSome(page) THEN Unwrap(page) ELSE 1
      lm == IF IsSome(limit) THEN Unwrap(limit) ELSE FETCH_LIMIT_DEFAULT
  IN IF pg < 1 \/ lm < 1 \/ lm > FETCH_LIMIT_MAX
     THEN [ok |-> FALSE, limit |-> 0, offset |-> 0]
     ELSE [ok |-> TRUE, limit |-> lm, offset |-> lm * (pg - 1)]

\* Mutant: a tree fetch validates and applies the caller's page and limit.
list_limit_and_offset_checked(o) == limit_and_offset(o.page, o.limit)

list_limit_and_offset(o) ==
  IF IsSome(o.max_depth)
  THEN [ok |-> TRUE, limit |-> TREE_FETCH_LIMIT, offset |-> 0]
  ELSE limit_and_offset(o.page, o.limit)

\* Lexicographic order of two equally long sequences of integers.
RECURSIVE LexLess(_, _)
LexLess(a, b) ==
  IF a = <<>> \/ b = <<>> THEN FALSE
  ELSE IF Head(a) # Head(b) THEN Head(a) < Head(b)
  ELSE LexLess(Tail(a), Tail(b))

\* ltree order: label by label, a proper prefix first.
RECURSIVE LtreeLess(_, _)
LtreeLess(a, b) ==
  IF b = <<>> THEN FALSE
  ELSE IF a = <<>> THEN TRUE
  ELSE IF Head(a) # Head(b) THEN Head(a) < Head(b)
  ELSE LtreeLess(Tail(a), Tail(b))

Bit(b) == IF b THEN 1 ELSE 0

\* Mutant: an unspecified sort is taken as New.
list_sort_key_default_new(o, co) ==
  LET sort == IF o.sort = "None" THEN "New" ELSE o.sort
  IN CASE sort = "Hot" -> <<0 - co.hot_rank, 0 - co.score>>
       [] sort = "Controversial" -> <<0 - co.controversy_rank>>
       [] sort = "New" -> <<0 - co.published>>
       [] sort = "Old" -> <<co.published>>
       [] sort = "Top" -> <<0 - co.score>>

\* The keys of the chosen sort, each turned so that smaller comes first.
list_sort_key(o, co) ==
  LET sort == IF o.sort = "None" THEN "Hot" ELSE o.sort
  IN CASE sort = "Hot" -> <<0 - co.hot_rank, 0 - co.score>>
       [] sort = "Controversial" -> <<0 - co.controversy_rank>>
       [] sort = "New" -> <<0 - co.published>>
       [] sort = "Old" -> <<co.published>>
       [] sort = "Top" -> <<0 - co.score>>

\* ORDER BY: the parent path (tree fetch scoped to a post or parent), then
\* distinguished (scoped to a post or parent), then the sort.
\* Mutant: every tree fetch is ordered by the parent path, scoped or not.
list_by_parent_path_unscoped(o) == IsSome(o.max_depth)

list_by_parent_path(o) ==
  IsSome(o.max_depth) /\ (o.post_id # None \/ o.parent_path # <<>>)

\* Mutant: a listing scoped to a post alone is not ordered by distinguished.
list_by_distinguished_below_parent(o) == o.parent_path # <<>>

list_by_distinguished(o) == o.post_id # None \/ o.parent_path # <<>>

list_order_key(o, co) ==
  (IF list_by_distinguished(o) THEN <<0 - Bit(co.distinguished)>> ELSE <<>>)
    \o list_sort_key(o, co)

\* co1 is ordered strictly before co2.
list_before(o, co1, co2) ==
  LET p1 == subpath_parent(co1.path)
      p2 == subpath_parent(co2.path)
  IN IF list_by_parent_path(o) /\ p1 # p2
     THEN LtreeLess(p1, p2)
     ELSE LexLess(list_order_key(o, co1), list_order_key(o, co2))

\* Every order of the rows S the ORDER BY allows: rows with equal keys come
\* in any order.
RECURSIVE list_orders(_, _)
list_orders(o, S) ==
  IF S = {} THEN {<<>>}
  ELSE UNION {
         {<<m>> \o t : t \in list_orders(o, S \ {m})} :
           m \in {x \in S : \A y \in S : ~list_before(o, comment[y], comment[x])}}

\* LIMIT and OFFSET.
list_page(s, limit, offset) ==
  SubSeq(s, offset + 1, IF offset + limit < Len(s) THEN offset + limit ELSE Len(s))

InvalidPagination == [ok |-> FALSE, error |-> "InvalidPagination", items |-> <<>>]

\* The call does not return: arithmetic overflow with overflow checks on.
Panic == [ok |-> FALSE, error |-> "Panic", items |-> <<>>]

\* The answers the store may give to the query.
list(o, site) ==
  LET my_person_id == person_id(o.local_user)
      lo == list_limit_and_offset(o)
      rows == {c \in DOMAIN comment : list_filter(o, site, joins(my_person_id, c))}
  IN IF ~lo.ok THEN {InvalidPagination}
     ELSE {[ok |-> TRUE, error |-> "",
            items |-> [i \in DOMAIN list_page(s, lo.limit, lo.offset) |->
                         as_select(joins(my_person_id,
                                         list_page(s, lo.limit, lo.offset)[i]))]] :
             s \in list_orders(o, rows)}
          \cup (IF depth_limit_overflows(o) THEN {Panic} ELSE {})

----------------------------------------------------------------------------
(* The initial store, after tests::init_data: two persons with a local     *)
(* user each (the first an admin), a local and a remote community with a   *)
(* post each, three top-level comments, every language enabled, no block,  *)
(* no follow, no moderator.                                                *)

CommentInsertForm(id, creator_id, post_id, language_id, rank) ==
  [id |-> id, creator_id |-> creator_id, post_id |-> post_id,
   language_id |-> language_id, content |-> "Comment", removed |-> FALSE,
   deleted |-> FALSE, federation_pending |-> FALSE, distinguished |-> FALSE,
   path |-> <<0, id>>, score |-> rank, hot_rank |-> rank,
   controversy_rank |-> rank, published |-> rank]

PostInsertForm(community_id) ==
  [community_id |-> community_id, nsfw |-> FALSE,
   featured_community |-> FALSE, featured_local |-> FALSE]

\* LocalUserView::create_test_user(pool, name, bio, admin)
PersonInsertForm(instance_id) ==
  [instance_id |-> instance_id, bot_account |-> FALSE,
   display_name |-> <<>>, bio |-> <<"bio">>, matrix_user_id |-> <<>>]

InitComments ==
  (1 :> CommentInsertForm(1, 1, 1, 1, 1))
    @@ (2 :> CommentInsertForm(2, 2, 1, 1, 2))
    @@ (3 :> CommentInsertForm(3, 1, 2, UNDETERMINED_ID, 3))

InitStore ==
  /\ comment = InitComments
  /\ post = [p \in PostIds |-> PostInsertForm(p)]
  /\ community = [c \in CommunityIds |->
                    [instance_id |-> c, local |-> (c = 1), nsfw |-> FALSE,
                     visibility |-> "Public"]]
  /\ person = [p \in PersonIds |-> PersonInsertForm(p)]
  /\ local_user = [u \in LocalUserIds |->
                     [id |-> u, person_id |-> u, admin |-> (u = 1),
                      show_nsfw |-> FALSE, show_bot_accounts |-> TRUE]]
  /\ local_user_language = LocalUserIds \X LanguageIds
  /\ community_actions = [k \in PersonIds \X CommunityIds |-> NullCommunityActions]
  /\ person_actions = [k \in PersonIds \X PersonIds |-> NullPersonActions]
  /\ instance_actions = [k \in PersonIds \X InstanceIds |-> NullInstanceActions]
  /\ comment_actions = [k \in PersonIds \X DOMAIN InitComments |-> NullCommentActions]
  /\ now = 10
  /\ comment_id_seq = 3

CommentQuery_default ==
  [listing_type |-> "All", sort |-> "None", time_range_seconds |-> <<>>,
   community_id |-> None, post_id |-> None, parent_path |-> <<>>,
   creator_id |-> None, local_user |-> None, liked_only |-> FALSE,
   disliked_only |-> FALSE, page |-> <<>>, limit |-> <<>>, max_depth |-> <<>>]

NoRequest == [o |-> CommentQuery_default, site |-> [content_warning |-> FALSE],
              comment_id |-> None]
NoResponse == [ok |-> TRUE, error |-> "", items |-> <<>>]

\* No listing is being paged through.
NoPaging == [o |-> CommentQuery_default, pages |-> <<>>, started_at |-> 0]

\* UserSettingsBackup: the six lists of the backup, in the order the import
\* task works through them.  followed_communities is the bag of its URLs:
\* the id of a community of the store stands for that community's URL, 0 for
\* a URL behind which there is no community.  The other lists are modelled
\* by their length.
BackupLists == <<"followed_communities", "saved_posts", "saved_comments",
                 "blocked_communities", "blocked_users", "blocked_instances">>

UserSettingsBackup_default ==
  [display_name |-> <<>>, bio |-> <<>>, matrix_id |-> <<>>,
   bot_account |-> <<>>, settings |-> <<>>,
   followed_communities |-> EmptyBag, saved_posts |-> 0, saved_comments |-> 0,
   blocked_communities |-> 0, blocked_users |-> 0, blocked_instances |-> 0]

\* No import yet.  task: 0 when no task was spawned, k in 1..6 when the task
\* is about to import list k, 7 when it has ended.
NoImport ==
  [data |-> UserSettingsBackup_default, person_id |-> None, task |-> 0,
   imported |-> [k \in DOMAIN BackupLists |-> 0]]

\* No fetch_and_import is running.
NoFetch ==
  [objects |-> <<>>, fails |-> {}, called |-> <<>>, in_flight |-> {},
   results |-> <<>>, failed_items |-> <<>>, done |-> FALSE]

Init ==
  /\ InitStore
  /\ writes = 0
  /\ pc = "idle"
  /\ request = NoRequest
  /\ response = NoResponse
  /\ paging = NoPaging
  /\ backup_import = NoImport
  /\ fetch = NoFetch
  /\ mod_feature_post = <<>>
  /\ activity_queue = <<>>

----------------------------------------------------------------------------
(* Writers of the store.  Each is one statement of the store.              *)

Write ==
  /\ pc = "idle"
  /\ writes < MaxWrites
  /\ writes' = writes + 1
  /\ UNCHANGED <<now, comment_id_seq, pc, request, response, paging, backup_import,
                 fetch, mod_feature_post, activity_queue>>

\* PersonActions::block / unblock
PersonActions_block(p, t) ==
  /\ Write
  /\ p # t
  /\ ~person_actions[<<p, t>>].blocked
  /\ person_actions' = [person_actions EXCEPT ![<<p, t>>].blocked = TRUE]
  /\ UNCHANGED <<comment, post, community, person, local_user, local_user_language,
                 community_actions, instance_actions, comment_actions>>

PersonActions_unblock(p, t) ==
  /\ Write
  /\ person_actions[<<p, t>>].blocked
  /\ person_actions' = [person_actions EXCEPT ![<<p, t>>].blocked = FALSE]
  /\ UNCHANGED <<comment, post, community, person, local_user, local_user_language,
                 community_actions, instance_actions, comment_actions>>

\* InstanceActions::block / unblock
InstanceActions_block(p, i, b) ==
  /\ Write
  /\ instance_actions[<<p, i>>].blocked # b
  /\ instance_actions' = [instance_actions EXCEPT ![<<p, i>>].blocked = b]
  /\ UNCHANGED <<comment, post, community, person, local_user, local_user_language,
                 community_actions, person_actions, comment_actions>>

\* CommunityActions::follow with a CommunityFollowerForm
CommunityActions_follow(p, c, state) ==
  /\ Write
  /\ community_actions[<<p, c>>].follow_state # state
  /\ community_actions' = [community_actions EXCEPT
                             ![<<p, c>>].followed = TRUE,
                             ![<<p, c>>].follow_state = state]
  /\ UNCHANGED <<comment, post, community, person, local_user, local_user_language,
                 person_actions, instance_actions, comment_actions>>

CommunityActions_unfollow(p, c) ==
  /\ Write
  /\ community_actions[<<p, c>>].followed
  /\ community_actions' = [community_actions EXCEPT
                             ![<<p, c>>].followed = FALSE,
                             ![<<p, c>>].follow_state = "NULL"]
  /\ UNCHANGED <<comment, post, community, person, local_user, local_user_language,
                 person_actions, instance_actions, comment_actions>>

\* CommunityActions::join / leave with a CommunityModeratorForm
CommunityActions_join(p, c, b) ==
  /\ Write
  /\ community_actions[<<p, c>>].became_moderator # b
  /\ community_actions' = [community_actions EXCEPT ![<<p, c>>].became_moderator = b]
  /\ UNCHANGED <<comment, post, community, person, local_user, local_user_language,
                 person_actions, instance_actions, comment_actions>>

\* Community::update with a CommunityUpdateForm
Community_update_visibility(c, v) ==
  /\ Write
  /\ community[c].visibility # v
  /\ community' = [community EXCEPT ![c].visibility = v]
  /\ UNCHANGED <<comment, post, person, local_user, local_user_language,
                 community_actions, person_actions, instance_actions, comment_actions>>

Community_update_nsfw(c, b) ==
  /\ Write
  /\ community[c].nsfw # b
  /\ community' = [community EXCEPT ![c].nsfw = b]
  /\ UNCHANGED <<comment, post, person, local_user, local_user_language,
                 community_actions, person_actions, instance_actions, comment_actions>>

\* Post::update with a PostUpdateForm
Post_update_nsfw(p, b) ==
  /\ Write
  /\ post[p].nsfw # b
  /\ post' = [post EXCEPT ![p].nsfw = b]
  /\ UNCHANGED <<comment, community, person, local_user, local_user_language,
                 community_actions, person_actions, instance_actions, comment_actions>>

\* Person::update of bot_account
Person_update_bot_account(p, b) ==
  /\ Write
  /\ person[p].bot_account # b
  /\ person' = [person EXCEPT ![p].bot_account = b]
  /\ UNCHANGED <<comment, post, community, local_user, local_user_language,
                 community_actions, person_actions, instance_actions, comment_actions>>

\* LocalUser::update with a LocalUserUpdateForm
LocalUser_update(u, field, b) ==
  /\ Write
  /\ local_user[u][field] # b
  /\ local_user' = [local_user EXCEPT ![u][field] = b]
  /\ UNCHANGED <<comment, post, community, person, local_user_language,
                 community_actions, person_actions, instance_actions, comment_actions>>

\* LocalUserLanguage::update
LocalUserLanguage_update(u, langs) ==
  /\ Write
  /\ langs # {}
  /\ {l \in LanguageIds : <<u, l>> \in local_user_language} # langs
  /\ local_user_language' =
       {k \in local_user_language : k[1] # u} \cup {<<u, l>> : l \in langs}
  /\ UNCHANGED <<comment, post, community, person, local_user,
                 community_actions, person_actions, instance_actions, comment_actions>>

\* Comment::update with a CommentUpdateForm
Comment_update(c, field, b) ==
  /\ Write
  /\ comment[c][field] # b
  /\ comment' = [comment EXCEPT ![c][field] = b]
  /\ UNCHANGED <<post, community, person, local_user, local_user_language,
                 community_actions, person_actions, instance_actions, comment_actions>>

----------------------------------------------------------------------------
(* Requests. *)

Scopes ==
  {[community_id |-> None, post_id |-> None, creator_id |-> None],
   [community_id |-> 1, post_id |-> 1, creator_id |-> 2]}

Sites == [content_warning : BOOLEAN]

Viewers == {None} \cup LocalUserIds

ReadIds == 1..4

Queries ==
  {[CommentQuery_default EXCEPT
      !.listing_type = lt, !.local_user = u, !.community_id = sc.community_id,
      !.post_id = sc.post_id, !.creator_id = sc.creator_id] :
     lt \in ListingTypes, u \in Viewers, sc \in Scopes}

List(o, site) ==
  /\ pc = "idle"
  /\ \E res \in list(o, site) : response' = res
  /\ request' = [o |-> o, site |-> site, comment_id |-> None]
  /\ pc' = "listed"
  /\ UNCHANGED <<store, writes, paging, backup_import,
                 fetch, mod_feature_post, activity_queue>>

Read(comment_id, u) ==
  /\ pc = "idle"
  /\ response' = read(comment_id, u)
  /\ request' = [NoRequest EXCEPT !.o.local_user = u, !.comment_id = comment_id]
  /\ pc' = "read"
  /\ UNCHANGED <<store, writes, paging, backup_import,
                 fetch, mod_feature_post, activity_queue>>

Respond ==
  /\ pc # "idle"
  /\ pc' = "idle"
  /\ request' = NoRequest
  /\ response' = NoResponse
  /\ UNCHANGED <<store, writes, paging, backup_import,
                 fetch, mod_feature_post, activity_queue>>

Next ==
  \/ \E p \in PersonIds, t \in PersonIds : PersonActions_block(p, t)
  \/ \E p \in PersonIds, t \in PersonIds : PersonActions_unblock(p, t)
  \/ \E p \in PersonIds, i \in InstanceIds, b \in BOOLEAN : InstanceActions_block(p, i, b)
  \/ \E p \in PersonIds, c \in CommunityIds, st \in CommunityFollowerStates :
       CommunityActions_follow(p, c, st)
  \/ \E p \in PersonIds, c \in CommunityIds : CommunityActions_unfollow(p, c)
  \/ \E p \in PersonIds, c \in CommunityIds, b \in BOOLEAN : CommunityActions_join(p, c, b)
  \/ \E c \in CommunityIds, v \in CommunityVisibilities : Community_update_visibility(c, v)
  \/ \E c \in CommunityIds, b \in BOOLEAN : Community_update_nsfw(c, b)
  \/ \E p \in PostIds, b \in BOOLEAN : Post_update_nsfw(p, b)
  \/ \E p \in PersonIds, b \in BOOLEAN : Person_update_bot_account(p, b)
  \/ \E u \in LocalUserIds, f \in {"show_nsfw", "show_bot_accounts"},
        b \in BOOLEAN : LocalUser_update(u, f, b)
  \/ \E u \in LocalUserIds, langs \in SUBSET LanguageIds : LocalUserLanguage_update(u, langs)
  \/ \E c \in DOMAIN comment, f \in {"removed", "deleted", "federation_pending"},
        b \in BOOLEAN : Comment_update(c, f, b)
  \/ \E o \in Queries, site \in Sites : List(o, site)
  \/ \E id \in ReadIds, u \in Viewers : Read(id, u)
  \/ Respond

Spec == Init /\ [][Next]_vars

----------------------------------------------------------------------------
(* The comment tree of tests::init_data: one post holding                  *)
(*        0                                                                *)
(*      /   \                                                              *)
(*     1     2                                                             *)
(*    / \                                                                  *)
(*   3   4                                                                 *)
(*       |                                                                 *)
(*       5                                                                 *)
(* Comment 1 is sara's, the others are timmy's; timmy blocks sara and      *)
(* likes comment 0.  The serial hands out the ids 1 to 6 in this order.    *)

comment_0 == 1
comment_1 == 2
comment_2 == 3
comment_3 == 4
comment_4 == 5
comment_5 == 6

timmy == 1
sara == 2

\* Comment::create: a reply's path continues the path of its parent, a
\* top-level comment's path starts at the label 0.
Comment_create_path(id, parent_path) ==
  (IF parent_path = <<>> THEN <<0>> ELSE parent_path) \o <<id>>

\* A comment of the tree; hot_rank is the column's default, score and
\* controversy_rank are what the votes cast so far have made them.
TreeComment(id, creator_id, language_id, parent_path, score, controversy_rank) ==
  [CommentInsertForm(id, creator_id, 1, language_id, id) EXCEPT
     !.path = Comment_create_path(id, parent_path),
     !.hot_rank = 0,
     !.score = score,
     !.controversy_rank = controversy_rank]

TreeComments ==
  LET path_0 == Comment_create_path(comment_0, <<>>)
      path_1 == Comment_create_path(comment_1, path_0)
      path_4 == Comment_create_path(comment_4, path_1)
  IN (comment_0 :> TreeComment(comment_0, timmy, 1, <<>>, 3, 0))
       @@ (comment_1 :> TreeComment(comment_1, sara, 1, path_0, 2, 1))
       @@ (comment_2 :> TreeComment(comment_2, timmy, 1, path_0, 2, 1))
       @@ (comment_3 :> TreeComment(comment_3, timmy, 1, path_1, 1, 2))
       @@ (comment_4 :> TreeComment(comment_4, timmy, 1, path_1, 1, 3))
       @@ (comment_5 :> TreeComment(comment_5, timmy, UNDETERMINED_ID, path_4, 0, 4))

InitTreeStore ==
  /\ comment = TreeComments
  /\ post = [p \in PostIds |-> PostInsertForm(p)]
  /\ community = [c \in CommunityIds |->
                    [instance_id |-> c, local |-> (c = 1), nsfw |-> FALSE,
                     visibility |-> "Public"]]
  /\ person = [p \in PersonIds |-> PersonInsertForm(p)]
  /\ local_user = [u \in LocalUserIds |->
                     [id |-> u, person_id |-> u, admin |-> (u = timmy),
                      show_nsfw |-> FALSE, show_bot_accounts |-> TRUE]]
  /\ local_user_language = LocalUserIds \X LanguageIds
  /\ community_actions = [k \in PersonIds \X CommunityIds |-> NullCommunityActions]
  /\ person_actions = [k \in PersonIds \X PersonIds |->
                         [blocked |-> (k = <<timmy, sara>>)]]
  /\ instance_actions = [k \in PersonIds \X InstanceIds |-> NullInstanceActions]
  /\ comment_actions = (<<timmy, comment_0>> :> [like_score |-> 1])
  /\ now = 10
  /\ comment_id_seq = comment_5

InitTree ==
  /\ InitTreeStore
  /\ writes = 0
  /\ pc = "idle"
  /\ request = NoRequest
  /\ response = NoResponse
  /\ paging = NoPaging
  /\ backup_import = NoImport
  /\ fetch = NoFetch
  /\ mod_feature_post = <<>>
  /\ activity_queue = <<>>

\* CommentActions::like with a CommentLikeForm; the store keeps the
\* comment's score in step with its likes.
CommentActions_like(p, c, like_score) ==
  LET old == comment_actions_join(p, c).like_score
  IN /\ Write
     /\ c \in DOMAIN comment
     /\ old # like_score
     /\ comment_actions' =
          [k \in DOMAIN comment_actions \cup {<<p, c>>} |->
             IF k = <<p, c>> THEN [like_score |-> like_score] ELSE comment_actions[k]]
     /\ comment' = [comment EXCEPT ![c].score = @ + like_score - old]
     /\ UNCHANGED <<post, community, person, local_user, local_user_language,
                    community_actions, person_actions, instance_actions>>

\* The comments the moderators distinguish, and the comments voted on.
DistinguishTargets == {comment_2, comment_4}
LikeTargets == {comment_0, comment_1}

NoSite == [content_warning |-> FALSE]

\* Tree fetches and flat listings of the post, by scope, depth and sort.
TreeFetches ==
  {[CommentQuery_default EXCEPT
      !.local_user = u, !.post_id = p, !.parent_path = pp, !.max_depth = d,
      !.sort = so] :
     u \in {None, timmy}, p \in {None, 1},
     pp \in {<<>>, TreeComments[comment_1].path},
     d \in {<<>>, <<1>>, <<2>>, <<I32_MAX>>},
     so \in {"None"} \cup CommentSortTypes}

\* The same with a page and a limit, valid or not.
PageLimits ==
  {[page |-> <<0>>, limit |-> <<>>],
   [page |-> <<>>, limit |-> <<0>>],
   [page |-> <<>>, limit |-> <<FETCH_LIMIT_MAX + 1>>],
   [page |-> <<2>>, limit |-> <<2>>]}

PagedFetches ==
  {[CommentQuery_default EXCEPT
      !.post_id = 1, !.max_depth = d, !.sort = so,
      !.page = pl.page, !.limit = pl.limit] :
     d \in {<<>>, <<1>>, <<2>>}, so \in {"None", "New"}, pl \in PageLimits}

\* Listings of what the viewer liked or disliked.
LikedQueries ==
  {[CommentQuery_default EXCEPT
      !.local_user = u, !.liked_only = l, !.disliked_only = d] :
     u \in Viewers, l \in BOOLEAN, d \in BOOLEAN}

\* Listings of the last seconds, of everything and of the post, by sort.
RangedFetches ==
  {[CommentQuery_default EXCEPT
      !.post_id = p, !.sort = so, !.time_range_seconds = <<6>>] :
     p \in {None, 1}, so \in {"None"} \cup CommentSortTypes}

TreeQueries == TreeFetches \cup PagedFetches \cup LikedQueries \cup RangedFetches

NextTree ==
  \/ \E p \in PersonIds, t \in PersonIds : PersonActions_block(p, t)
  \/ \E p \in PersonIds, t \in PersonIds : PersonActions_unblock(p, t)
  \/ \E c \in DistinguishTargets, b \in BOOLEAN : Comment_update(c, "distinguished", b)
  \/ \E p \in PersonIds, c \in LikeTargets, like_score \in {1, -1} :
       CommentActions_like(p, c, like_score)
  \/ \E o \in TreeQueries : List(o, NoSite)
  \/ Respond

SpecTree == InitTree /\ [][NextTree]_vars

----------------------------------------------------------------------------
(* A client walking through the pages of a flat listing of the tree: page  *)
(* 1, 2, ... of one query, each page one CommentQuery::list call, until a  *)
(* page comes back short.  Other clients create and delete comments        *)
(* between the calls.                                                      *)

\* Comment::create: the serial gives the id, the clock the publication time.
Comment_create(creator_id, parent_path) ==
  LET id == comment_id_seq + 1
  IN /\ pc = "idle"
     /\ writes < MaxWrites
     /\ writes' = writes + 1
     /\ comment_id_seq' = id
     /\ comment' =
          [c \in DOMAIN comment \cup {id} |->
             IF c = id
             THEN [TreeComment(id, creator_id, UNDETERMINED_ID, parent_path, 0, 0)
                     EXCEPT !.published = now]
             ELSE comment[c]]
     /\ UNCHANGED <<post, community, person, local_user, local_user_language,
                    community_actions, person_actions, instance_actions,
                    comment_actions, now, pc, request, response, paging, backup_import,
                 fetch, mod_feature_post, activity_queue>>

\* Comment::delete: the row goes, and with it the rows that refer to it.
Comment_delete(c) ==
  /\ Write
  /\ c \in DOMAIN comment
  /\ comment' = [d \in DOMAIN comment \ {c} |-> comment[d]]
  /\ comment_actions' =
       [k \in {k \in DOMAIN comment_actions : k[2] # c} |-> comment_actions[k]]
  /\ UNCHANGED <<post, community, person, local_user, local_user_language,
                 community_actions, person_actions, instance_actions>>

\* The limits the client pages with.
PageSizes == {2, 4}

\* The next page of the walk: the first page of a new walk, or the page after
\* the last one when that one came back full.
ListPage(sort, limit) ==
  LET n == Len(paging.pages)
      o == [CommentQuery_default EXCEPT
              !.sort = sort, !.page = <<n + 1>>, !.limit = <<limit>>]
  IN /\ pc = "idle"
     /\ n > 0 => /\ o = [paging.o EXCEPT !.page = <<n + 1>>]
                 /\ Len(paging.pages[n]) = limit
     /\ \E res \in list(o, NoSite) :
          /\ response' = res
          /\ paging' = [o |-> o,
                        pages |-> Append(paging.pages,
                                         [i \in DOMAIN res.items |->
                                            res.items[i].comment.id]),
                        started_at |-> IF n = 0 THEN writes ELSE paging.started_at]
     /\ request' = [o |-> o, site |-> NoSite, comment_id |-> None]
     /\ pc' = "listed"
     /\ UNCHANGED <<store, writes, backup_import, fetch, mod_feature_post,
                    activity_queue>>

NextPages ==
  \/ \E p \in {timmy}, pp \in {<<>>, TreeComments[comment_0].path} : Comment_create(p, pp)
  \/ \E c \in DOMAIN comment : Comment_delete(c)
  \/ \E sort \in {"None"} \cup CommentSortTypes, limit \in PageSizes : ListPage(sort, limit)
  \/ Respond

SpecPages == InitTree /\ [][NextPages]_vars

----------------------------------------------------------------------------
(* Import of a settings backup: import_settings updates the profile and    *)
(* the settings, counts the entries of the lists and, when they are not    *)
(* too many, spawns a task that imports the lists one after the other      *)
(* while the request is answered.                                          *)

MAX_API_PARAM_ELEMENTS == 10000

\* Number of import requests explored.
MaxImports == 2

TooManyItems == [ok |-> FALSE, error |-> "TooManyItems", items |-> <<>>]

\* Mutant: the saved posts and comments are not counted.
url_count_without_saved(data) ==
  BagCardinality(data.followed_communities) + data.blocked_communities
    + data.blocked_users + data.blocked_instances

url_count(data) ==
  BagCardinality(data.followed_communities) + data.blocked_communities
    + data.blocked_users + data.blocked_instances + data.saved_posts
    + data.saved_comments

\* Mutant: the bio is not exported.
export_settings_without_bio(u) ==
  LET p == local_user[u].person_id
  IN [display_name |-> person[p].display_name,
      bio |-> <<>>,
      matrix_id |-> person[p].matrix_user_id,
      bot_account |-> <<person[p].bot_account>>,
      settings |-> <<[show_nsfw |-> local_user[u].show_nsfw,
                      show_bot_accounts |-> local_user[u].show_bot_accounts]>>,
      followed_communities |->
        SetToBag({c \in CommunityIds : community_actions[<<p, c>>].followed}),
      blocked_communities |-> 0,
      blocked_users |-> Cardinality({t \in PersonIds : person_actions[<<p, t>>].blocked}),
      blocked_instances |->
        Cardinality({i \in InstanceIds : instance_actions[<<p, i>>].blocked}),
      saved_posts |-> 0,
      saved_comments |-> 0]

\* export_settings: the profile and the settings of the user, and the lists
\* of LocalUser::export_backup.
export_settings(u) ==
  LET p == local_user[u].person_id
  IN [display_name |-> person[p].display_name,
      bio |-> person[p].bio,
      matrix_id |-> person[p].matrix_user_id,
      bot_account |-> <<person[p].bot_account>>,
      settings |-> <<[show_nsfw |-> local_user[u].show_nsfw,
                      show_bot_accounts |-> local_user[u].show_bot_accounts]>>,
      followed_communities |->
        SetToBag({c \in CommunityIds : community_actions[<<p, c>>].followed}),
      blocked_communities |-> 0,
      blocked_users |-> Cardinality({t \in PersonIds : person_actions[<<p, t>>].blocked}),
      blocked_instances |->
        Cardinality({i \in InstanceIds : instance_actions[<<p, i>>].blocked}),
      saved_posts |-> 0,
      saved_comments |-> 0]

\* PersonUpdateForm of the import: None leaves the column as it is.
import_person_form(data) ==
  [display_name |-> data.display_name,
   bio |-> data.bio,
   matrix_user_id |-> data.bio,
   bot_account |-> data.bot_account]

\* Person::update, LocalUser::update: the columns the form gives are set.
Person_update(row, form) ==
  [row EXCEPT
     !.display_name = IF IsSome(form.display_name) THEN form.display_name ELSE @,
     !.bio = IF IsSome(form.bio) THEN form.bio ELSE @,
     !.matrix_user_id = IF IsSome(form.matrix_user_id) THEN form.matrix_user_id ELSE @,
     !.bot_account = IF IsSome(form.bot_account) THEN Unwrap(form.bot_account) ELSE @]

import_settings(data, u) ==
  LET p == local_user[u].person_id
  IN /\ pc = "idle"
     /\ backup_import.task \in {0, Len(BackupLists) + 1}
     /\ writes < MaxImports
     /\ writes' = writes + 1
     /\ person' = [person EXCEPT ![p] = Person_update(@, import_person_form(data))]
     /\ local_user' =
          IF IsSome(data.settings)
          THEN [local_user EXCEPT
                  ![u].show_nsfw = Unwrap(data.settings).show_nsfw,
                  ![u].show_bot_accounts = Unwrap(data.settings).show_bot_accounts]
          ELSE local_user
     /\ IF url_count(data) > MAX_API_PARAM_ELEMENTS
        THEN /\ response' = TooManyItems
             /\ backup_import' = [NoImport EXCEPT !.data = data, !.person_id = p]
        ELSE /\ response' = NoResponse
             /\ backup_import' =
                  [NoImport EXCEPT !.data = data, !.person_id = p, !.task = 1]
     /\ request' = [NoRequest EXCEPT !.o.local_user = u]
     /\ pc' = "imported"
     /\ UNCHANGED <<comment, post, community, local_user_language,
                    community_actions, person_actions, instance_actions,
                    comment_actions, now, comment_id_seq, paging,
                    fetch, mod_feature_post, activity_queue>>

\* One list of the spawned task: each entry is fetched and imported, or fails
\* and is reported; the task goes on to the next list.  A followed community
\* that was fetched is followed with state Pending.
ImportTask ==
  LET k == backup_import.task
      data == backup_import.data
      p == backup_import.person_id
  IN /\ k \in DOMAIN BackupLists
     /\ IF BackupLists[k] = "followed_communities"
        THEN \E ok \in SUBSET (DOMAIN data.followed_communities \cap CommunityIds) :
               /\ community_actions' =
                    [key \in DOMAIN community_actions |->
                       IF key[1] = p /\ key[2] \in ok
                       THEN [community_actions[key] EXCEPT
                               !.followed = TRUE, !.follow_state = "Pending"]
                       ELSE community_actions[key]]
               /\ backup_import' =
                    [backup_import EXCEPT
                       !.imported[k] = BagCardinality([c \in ok |-> data.followed_communities[c]]),
                       !.task = k + 1]
        ELSE /\ \E n \in {0, data[BackupLists[k]]} :
                  backup_import' = [backup_import EXCEPT !.imported[k] = n, !.task = k + 1]
             /\ UNCHANGED community_actions
     /\ UNCHANGED <<comment, post, community, person, local_user, local_user_language,
                    person_actions, instance_actions, comment_actions, now,
                    comment_id_seq, writes, pc, request, response, paging,
                    fetch, mod_feature_post, activity_queue>>

\* The backups sent: lists grown to these lengths, among them the backup of
\* tests::disallow_large_backup and backups of exactly the greatest number
\* of entries allowed.
BackupLengths ==
  {[UserSettingsBackup_default EXCEPT
      !.followed_communities = fc, !.blocked_communities = bc,
      !.blocked_users = bu, !.blocked_instances = bi] :
     fc \in {EmptyBag, (0 :> 5000)}, bc \in {0, 5000}, bu \in {0, 1}, bi \in {0, 1}}
  \cup
  {[UserSettingsBackup_default EXCEPT
      !.followed_communities = (0 :> n), !.blocked_communities = n,
      !.saved_posts = n, !.saved_comments = m] :
     n \in {2500, 2501}, m \in {2500, 2501}}

\* Partial backups: each profile field present or not, and the backup of
\* tests::import_partial_backup.
PartialBackups ==
  {[UserSettingsBackup_default EXCEPT
      !.display_name = dn, !.bio = bio, !.matrix_id = mx] :
     dn \in {<<>>, <<"larry">>}, bio \in {<<>>, <<"larry bio">>},
     mx \in {<<>>, <<"@larry:example.com">>}}
  \cup
  {[UserSettingsBackup_default EXCEPT
      !.bot_account = <<TRUE>>,
      !.settings = <<[show_nsfw |-> TRUE, show_bot_accounts |-> FALSE]>>]}

\* The exported backup of a user with its lists grown too long.
LargeBackups ==
  {[export_settings(u) EXCEPT
      !.followed_communities = (0 :> 2501), !.blocked_communities = 2501,
      !.saved_posts = 2501, !.saved_comments = 2501] : u \in LocalUserIds}

Backups ==
  BackupLengths \cup PartialBackups \cup LargeBackups
    \cup {export_settings(u) : u \in LocalUserIds}

\* The users of the tests: the exporting user, whose profile fields are set
\* or not and who follows the first community, and the importing user, who
\* has a profile of its own and may follow the second community.
export_user == 1
import_user == 2

InitBackup ==
  /\ comment = InitComments
  /\ post = [p \in PostIds |-> PostInsertForm(p)]
  /\ community = [c \in CommunityIds |->
                    [instance_id |-> c, local |-> (c = 1), nsfw |-> FALSE,
                     visibility |-> "Public"]]
  /\ local_user = [u \in LocalUserIds |->
                     [id |-> u, person_id |-> u, admin |-> FALSE,
                      show_nsfw |-> FALSE, show_bot_accounts |-> TRUE]]
  /\ local_user_language = LocalUserIds \X LanguageIds
  /\ person_actions = [k \in PersonIds \X PersonIds |-> NullPersonActions]
  /\ instance_actions = [k \in PersonIds \X InstanceIds |-> NullInstanceActions]
  /\ comment_actions = [k \in PersonIds \X DOMAIN InitComments |-> NullCommentActions]
  /\ now = 10
  /\ comment_id_seq = 3
  /\ writes = 0
  /\ pc = "idle"
  /\ request = NoRequest
  /\ response = NoResponse
  /\ paging = NoPaging
  /\ backup_import = NoImport
  /\ fetch = NoFetch
  /\ mod_feature_post = <<>>
  /\ activity_queue = <<>>
  /\ \E dn \in {<<>>, <<"hanna">>}, bio \in {<<>>, <<"my bio">>},
        mx \in {<<>>, <<"@hanna:example.com">>}, f \in BOOLEAN :
       /\ person = [p \in PersonIds |->
                      IF p = export_user
                      THEN [PersonInsertForm(p) EXCEPT
                              !.display_name = dn, !.bio = bio, !.matrix_user_id = mx]
                      ELSE [PersonInsertForm(p) EXCEPT
                              !.display_name = <<"charles">>, !.bio = <<"charles bio">>,
                              !.matrix_user_id = <<"@charles:example.com">>]]
       /\ community_actions =
            [k \in PersonIds \X CommunityIds |->
               IF k = <<export_user, 1>> \/ (f /\ k = <<import_user, 2>>)
               THEN [NullCommunityActions EXCEPT
                       !.followed = TRUE, !.follow_state = "Accepted"]
               ELSE NullCommunityActions]

NextImport ==
  \/ \E data \in Backups, u \in LocalUserIds : import_settings(data, u)
  \/ ImportTask
  \/ Respond

SpecImport == InitBackup /\ [][NextImport]_vars

----------------------------------------------------------------------------
(* fetch_and_import: the import function is mapped over the objects and    *)
(* the futures are run through buffer_unordered(PARALLELISM), which takes  *)
(* futures from the stream while fewer than PARALLELISM are in flight and  *)
(* then yields the results in the order the futures complete.  The results *)
(* are enumerated and the object at the index of each error is reported.   *)

PARALLELISM == 10

\* Mutant: one future more than PARALLELISM is let in.
buffer_unordered_full_one_more(f) == Cardinality(f.in_flight) > PARALLELISM

buffer_unordered_full(f) == Cardinality(f.in_flight) >= PARALLELISM

fetch_and_import(objects, fails) ==
  /\ fetch = NoFetch
  /\ fetch' = [NoFetch EXCEPT !.objects = objects, !.fails = fails]
  /\ UNCHANGED <<store, writes, pc, request, response, paging, backup_import,
                 mod_feature_post, activity_queue>>

\* The stream is polled: import_fn is called on the next object and its
\* future joins those in flight.
fetch_poll_stream ==
  LET i == Len(fetch.called) + 1
  IN /\ ~fetch.done
     /\ i <= Len(fetch.objects)
     /\ ~buffer_unordered_full(fetch)
     /\ fetch' = [fetch EXCEPT !.called = Append(@, fetch.objects[i]),
                               !.in_flight = @ \cup {i}]
     /\ UNCHANGED <<store, writes, pc, request, response, paging, backup_import,
                    mod_feature_post, activity_queue>>

\* A future in flight completes, whichever; its result is the next one
\* yielded.  The futures in flight are polled when no more can be taken.
fetch_complete(i) ==
  /\ i \in fetch.in_flight
  /\ buffer_unordered_full(fetch) \/ Len(fetch.called) = Len(fetch.objects)
  /\ fetch' = [fetch EXCEPT !.in_flight = @ \ {i},
                            !.results = Append(@, fetch.objects[i] \in fetch.fails)]
  /\ UNCHANGED <<store, writes, pc, request, response, paging, backup_import,
                 mod_feature_post, activity_queue>>

\* The failed items: the objects at the indexes of the results that are
\* errors, in the order of the results.
RECURSIVE failed_items(_, _, _)
failed_items(objects, results, i) ==
  IF i > Len(results) THEN <<>>
  ELSE (IF results[i] /\ i <= Len(objects) THEN <<objects[i]>> ELSE <<>>)
         \o failed_items(objects, results, i + 1)

\* collect, enumerate, for_each: the report is made.
fetch_collect ==
  /\ ~fetch.done
  /\ fetch.objects # <<>>
  /\ Len(fetch.called) = Len(fetch.objects)
  /\ fetch.in_flight = {}
  /\ fetch' = [fetch EXCEPT !.failed_items = failed_items(fetch.objects, fetch.results, 1),
                            !.done = TRUE]
  /\ UNCHANGED <<store, writes, pc, request, response, paging, backup_import,
                 mod_feature_post, activity_queue>>

\* The lists imported: two objects, and more objects than PARALLELISM, of
\* which these fail.
FetchInputs ==
  {[objects |-> <<1, 2>>, fails |-> fs] : fs \in SUBSET {1, 2}}
  \cup {[objects |-> [i \in 1..(PARALLELISM + 2) |-> i], fails |-> fs] :
          fs \in {{}, {1}, {PARALLELISM + 2}, {3, PARALLELISM + 1}}}

NextFetch ==
  \/ \E in \in FetchInputs : fetch_and_import(in.objects, in.fails)
  \/ fetch_poll_stream
  \/ \E i \in fetch.in_flight : fetch_complete(i)
  \/ fetch_collect

SpecFetch == Init /\ [][NextFetch]_vars

----------------------------------------------------------------------------
(* feature_post: a moderator features or unfeatures a post in its          *)
(* community, an admin on the local site.  The handler reads the post and  *)
(* the community, checks the caller, updates the post, creates the mod log *)
(* row and submits the activity, each a statement of its own: a statement  *)
(* that fails ends the call with its error and undoes nothing.             *)

PostFeatureTypes == {"Local", "Community"}

\* check_community_mod_action: the caller moderates the community or is an
\* admin.
check_community_mod_action(u, c) ==
  is_admin(u) \/ community_actions[<<person_id(u), c>>].became_moderator

\* Mutant: the form sets both flags.
feature_post_form_both(data) ==
  [featured_community |-> <<data.featured>>, featured_local |-> <<data.featured>>]

\* The PostUpdateForm of the call.
feature_post_form(data) ==
  IF data.feature_type = "Community"
  THEN [featured_community |-> <<data.featured>>, featured_local |-> <<>>]
  ELSE [featured_community |-> <<>>, featured_local |-> <<data.featured>>]

\* Post::update with the form.
Post_update(row, form) ==
  [row EXCEPT
     !.featured_community = IF IsSome(form.featured_community)
                            THEN Unwrap(form.featured_community) ELSE @,
     !.featured_local = IF IsSome(form.featured_local)
                        THEN Unwrap(form.featured_local) ELSE @]

ModFeaturePostForm(data, u) ==
  [mod_person_id |-> local_user[u].person_id, post_id |-> data.post_id,
   featured |-> data.featured,
   is_featured_community |-> (data.feature_type = "Community")]

FeatureError(error) == [ok |-> FALSE, error |-> error, items |-> <<>>]

\* The statements that may fail, in the order they run.
FeatureStatements == <<"Post::update", "ModFeaturePost::create", "submit_activity">>

\* The call; fails_at is the number of the statement that fails, 0 for none.
feature_post(data, u, fails_at) ==
  LET c == post[data.post_id].community_id
      authorised == /\ check_community_mod_action(u, c)
                    /\ (data.feature_type = "Local" => is_admin(u))
      reached(n) == authorised /\ (fails_at = 0 \/ fails_at > n)
  IN /\ pc = "idle"
     /\ writes < MaxWrites
     /\ writes' = writes + 1
     /\ post' = IF reached(1)
                 THEN [post EXCEPT ![data.post_id] = Post_update(@, feature_post_form(data))]
                 ELSE post
     /\ mod_feature_post' = IF reached(2)
                             THEN Append(mod_feature_post, ModFeaturePostForm(data, u))
                             ELSE mod_feature_post
     /\ activity_queue' =
          IF reached(3)
          THEN Append(activity_queue,
                      [post_id |-> data.post_id, person_id |-> local_user[u].person_id,
                       featured |-> data.featured])
          ELSE activity_queue
     /\ response' = IF ~check_community_mod_action(u, c) THEN FeatureError("NotAModerator")
                     ELSE IF ~authorised THEN FeatureError("NotAnAdmin")
                     ELSE IF fails_at # 0 THEN FeatureError(FeatureStatements[fails_at])
                     ELSE NoResponse
     /\ request' = [o |-> [CommentQuery_default EXCEPT !.local_user = u],
                     site |-> NoSite, comment_id |-> None, data |-> data]
     /\ pc' = "featured"
     /\ UNCHANGED <<comment, community, person, local_user, local_user_language,
                    community_actions, person_actions, instance_actions,
                    comment_actions, now, comment_id_seq, paging, backup_import, fetch>>

FeaturePosts ==
  [post_id : PostIds, featured : BOOLEAN, feature_type : PostFeatureTypes]

NextFeature ==
  \/ \E p \in PersonIds, c \in CommunityIds, b \in BOOLEAN : CommunityActions_join(p, c, b)
  \/ \E data \in FeaturePosts, u \in LocalUserIds, fails_at \in 0..Len(FeatureStatements) :
       feature_post(data, u, fails_at)
  \/ Respond

SpecFeature == Init /\ [][NextFeature]_vars

----------------------------------------------------------------------------
(* Properties.  They are stated over the store and the answer, not over    *)
(* the filters of read and list.                                           *)

Viewer == request.o.local_user
Me == IF Viewer = None THEN None ELSE local_user[Viewer].person_id
ViewerIsAdmin == Viewer # None /\ local_user[Viewer].admin
Items == {response.items[i] : i \in DOMAIN response.items}
ListedIds == {v.comment.id : v \in Items}

CommunityOf(c) == post[comment[c].post_id].community_id
IsNsfw(c) == post[comment[c].post_id].nsfw \/ community[CommunityOf(c)].nsfw

CreatorBlocked(c) ==
  Me # None /\ person_actions[<<Me, comment[c].creator_id>>].blocked
CreatorInstanceBlocked(c) ==
  Me # None /\ instance_actions[<<Me, person[comment[c].creator_id].instance_id>>].blocked
CommunityInstanceBlocked(c) ==
  Me # None /\ instance_actions[<<Me, community[CommunityOf(c)].instance_id>>].blocked

FollowAccepted(c) ==
  Me # None /\ community_actions[<<Me, CommunityOf(c)>>].follow_state = "Accepted"
ViewerModerates(c) ==
  Me # None /\ community_actions[<<Me, CommunityOf(c)>>].became_moderator

\* The community rules of a single-item read: local-only communities need a
\* login, private ones an admin or an accepted follower.
ReadVisible(c) ==
  /\ (Viewer = None =>
        community[CommunityOf(c)].visibility \notin {"LocalOnlyPublic", "LocalOnlyPrivate"})
  /\ (community[CommunityOf(c)].visibility = "Private" =>
        ViewerIsAdmin \/ FollowAccepted(c))

\* The row passes every filter of the listing but the named one.
PassesAllBut(c, rule) ==
  LET f == list_filters(request.o, request.site, joins(Me, c))
  IN \A k \in DOMAIN f \ {rule} : f[k]

\* The row passes every filter of the listing but the named ones.
PassesOthers(c, rules) ==
  LET f == list_filters(request.o, request.site, joins(Me, c))
  IN \A k \in DOMAIN f \ rules : f[k]

\* The ids of the answer, in the answer's order.
ListedSeq == [i \in DOMAIN response.items |-> response.items[i].comment.id]

\* Every comment of the tree is visible to the viewer.
TreeAllVisible ==
  /\ DOMAIN comment = DOMAIN TreeComments
  /\ \A c \in DOMAIN comment : PassesOthers(c, {"scope", "depth"})

\* A tree fetch of depth 1 with no other scope than the post.
TreeFetchDepth1 ==
  /\ pc = "listed"
  /\ request.o.max_depth = <<1>>
  /\ request.o.creator_id = None /\ request.o.community_id = None
  /\ request.o.post_id \in {None, 1}

\* C1 (as claimed): no listing made for a viewer V, whatever its listing
\* type, holds an item of another person whom V has blocked, directly or
\* through that person's instance.
C1_Original ==
  (pc = "listed" /\ Viewer # None) =>
     \A c \in ListedIds :
        comment[c].creator_id # Me =>
           ~CreatorBlocked(c) /\ ~CreatorInstanceBlocked(c)

\* C1 (amended): a Subscribed, Local or All listing made for a viewer V holds
\* no item written by another person whom V has blocked, and no item of
\* another person in a community whose instance V has blocked.
C1_BlockedAbsent ==
  (pc = "listed" /\ Viewer # None /\ request.o.listing_type # "ModeratorView") =>
     \A c \in ListedIds :
        comment[c].creator_id # Me =>
           ~CreatorBlocked(c) /\ ~CommunityInstanceBlocked(c)

C1_Witness ==
  /\ pc = "listed" /\ Viewer # None /\ request.o.listing_type = "All"
  /\ \E c \in DOMAIN comment :
        CreatorBlocked(c) /\ c \notin ListedIds /\ PassesAllBut(c, "blocked")
  /\ ListedIds # {}

\* C2 (as claimed): a read by V of an existing item whose creator V has
\* blocked fails with NotFound.
C2_Original ==
  (pc = "read" /\ request.comment_id \in DOMAIN comment
     /\ CreatorBlocked(request.comment_id)) => response = NotFound

\* C2 (amended): a read by V of an existing item whose creator V has blocked
\* is not refused for the block: it returns the item, with V's block of the
\* creator reported in person_actions, exactly when the item's community is
\* visible to V, and NotFound otherwise.
C2_ReadIgnoresBlock ==
  (pc = "read" /\ request.comment_id \in DOMAIN comment
     /\ CreatorBlocked(request.comment_id)) =>
       IF ReadVisible(request.comment_id)
       THEN /\ response.ok
            /\ ListedIds = {request.comment_id}
            /\ \A v \in Items : v.person_actions.blocked
       ELSE response = NotFound

C2_Witness ==
  /\ pc = "read" /\ request.comment_id \in DOMAIN comment
  /\ CreatorBlocked(request.comment_id)
  /\ response.ok /\ ListedIds = {request.comment_id}

\* C3: an item of a Private community is listed, and is returned by a read,
\* only to an admin or to a viewer whose follow of the community is Accepted.
C3_PrivateCommunity ==
  (pc \in {"listed", "read"}) =>
     \A c \in ListedIds :
        community[CommunityOf(c)].visibility = "Private" =>
           ViewerIsAdmin \/ FollowAccepted(c)

C3_Witness ==
  /\ pc = "listed"
  /\ ~ViewerIsAdmin
  /\ \E c \in ListedIds :
        community[CommunityOf(c)].visibility = "Private" /\ FollowAccepted(c)

\* C4: a listed item whose federation_pending flag is set was written by the
\* viewer; the viewer's own pending items and the items whose flag is clear
\* are listed whenever the other filters pass.
C4_FederationPending ==
  pc = "listed" =>
     /\ \A c \in ListedIds :
           comment[c].federation_pending => (Me # None /\ comment[c].creator_id = Me)
     /\ \A c \in DOMAIN comment :
           (comment[c].federation_pending /\ Me # None /\ comment[c].creator_id = Me
              /\ PassesAllBut(c, "federation_pending")) => c \in ListedIds
     /\ \A c \in DOMAIN comment :
           (~comment[c].federation_pending /\ PassesAllBut(c, "federation_pending"))
              => c \in ListedIds

C4_Witness ==
  /\ pc = "listed"
  /\ \E c \in ListedIds : comment[c].federation_pending /\ comment[c].creator_id = Me
  /\ \E c \in DOMAIN comment :
        /\ comment[c].federation_pending
        /\ c \notin ListedIds
        /\ PassesAllBut(c, "federation_pending")

\* C5 (as claimed): a read of an item whose federation_pending flag is set,
\* by anyone but its creator, fails with NotFound.
C5_Original ==
  (pc = "read" /\ request.comment_id \in DOMAIN comment
     /\ comment[request.comment_id].federation_pending
     /\ comment[request.comment_id].creator_id # Me) => response = NotFound

\* C5 (amended): a read does not look at federation_pending: a read of a
\* pending item by anyone but its creator returns the item, flag set,
\* exactly when the item's community is visible to the viewer, and NotFound
\* otherwise.
C5_ReadIgnoresPending ==
  (pc = "read" /\ request.comment_id \in DOMAIN comment
     /\ comment[request.comment_id].federation_pending
     /\ comment[request.comment_id].creator_id # Me) =>
       IF ReadVisible(request.comment_id)
       THEN /\ response.ok
            /\ ListedIds = {request.comment_id}
            /\ \A v \in Items : v.comment.federation_pending
       ELSE response = NotFound

C5_Witness ==
  /\ pc = "read" /\ request.comment_id \in DOMAIN comment
  /\ comment[request.comment_id].federation_pending
  /\ comment[request.comment_id].creator_id # Me
  /\ response.ok /\ ListedIds = {request.comment_id}

\* C6 (as claimed): a listed item whose post or community is NSFW is listed
\* for a viewer whose show_nsfw preference is set, with the site's content
\* warning set; an item that is not NSFW is listed whenever the other
\* filters pass.
C6_Original ==
  pc = "listed" =>
     /\ \A c \in ListedIds :
           IsNsfw(c) =>
              /\ Viewer # None /\ local_user[Viewer].show_nsfw
              /\ request.site.content_warning
     /\ \A c \in DOMAIN comment :
           (~IsNsfw(c) /\ PassesAllBut(c, "nsfw")) => c \in ListedIds

\* C6 (amended): a listed item whose post or community is NSFW is listed
\* with the site's content warning set and, when the listing has a viewer,
\* for a viewer whose show_nsfw preference is set; an item that is not NSFW
\* is listed whenever the other filters pass.
C6_NsfwListing ==
  pc = "listed" =>
     /\ \A c \in ListedIds :
           IsNsfw(c) =>
              /\ Viewer # None => local_user[Viewer].show_nsfw
              /\ request.site.content_warning
     /\ \A c \in DOMAIN comment :
           (~IsNsfw(c) /\ PassesAllBut(c, "nsfw")) => c \in ListedIds

C6_Witness ==
  /\ pc = "listed" /\ Viewer # None
  /\ local_user[Viewer].show_nsfw /\ request.site.content_warning
  /\ \E c \in ListedIds : community[CommunityOf(c)].nsfw /\ ~post[comment[c].post_id].nsfw
  /\ \E c \in ListedIds : ~IsNsfw(c)

\* C7: in a listing with no viewer, a comment of an NSFW post is listed only
\* with the site's content warning set, and with it set is listed whenever
\* the other filters pass.
C7_NsfwNoViewer ==
  (pc = "listed" /\ Viewer = None) =>
     \A c \in DOMAIN comment :
        post[comment[c].post_id].nsfw =>
           /\ c \in ListedIds => request.site.content_warning
           /\ (request.site.content_warning /\ PassesAllBut(c, "nsfw"))
                 => c \in ListedIds

C7_Witness ==
  /\ pc = "listed" /\ Viewer = None /\ request.site.content_warning
  /\ \E c \in ListedIds : post[comment[c].post_id].nsfw

\* C8 (as claimed): a read of an item whose post or community is NSFW fails
\* when there is no viewer or the viewer's show_nsfw preference is clear.
C8_Original ==
  (pc = "read" /\ request.comment_id \in DOMAIN comment
     /\ IsNsfw(request.comment_id)
     /\ (Viewer = None \/ ~local_user[Viewer].show_nsfw)) => ~response.ok

\* C8 (amended): a read does not look at NSFW flags, the viewer's show_nsfw
\* preference or the site: a read of an item whose post or community is NSFW
\* returns the item exactly when the item's community is visible to the
\* viewer, and NotFound otherwise.
C8_ReadIgnoresNsfw ==
  (pc = "read" /\ request.comment_id \in DOMAIN comment
     /\ IsNsfw(request.comment_id)) =>
       IF ReadVisible(request.comment_id)
       THEN response.ok /\ ListedIds = {request.comment_id}
       ELSE response = NotFound

C8_Witness ==
  /\ pc = "read" /\ request.comment_id \in DOMAIN comment
  /\ IsNsfw(request.comment_id)
  /\ Viewer # None /\ ~local_user[Viewer].show_nsfw
  /\ response.ok /\ ListedIds = {request.comment_id}

C10_Redacted ==
  \A v \in Items :
     comment[v.comment.id].removed =>
        v.comment.content =
          IF ViewerIsAdmin \/ ViewerModerates(v.comment.id)
          THEN comment[v.comment.id].content
          ELSE ""

C10_Redaction ==
  [][(pc = "idle" /\ pc' # "idle") => (comment' = comment /\ C10_Redacted')]_vars

C10_Witness ==
  /\ pc = "listed"
  /\ \E v \in Items :
        /\ comment[v.comment.id].removed
        /\ ~ViewerIsAdmin /\ ViewerModerates(v.comment.id)
        /\ v.comment.content = comment[v.comment.id].content
        /\ v.comment.content # ""

\* C11 (as claimed): on the tree, all items visible, a fetch of depth 1 with
\* no parent path returns exactly comment 0, and a fetch of depth 1 below
\* comment 1 returns exactly the comments 3 and 4.
C11_Original ==
  (TreeFetchDepth1 /\ TreeAllVisible) =>
     IF request.o.parent_path = <<>>
     THEN ListedIds = {comment_0}
     ELSE ListedIds = {comment_3, comment_4}

\* C11 (amended): on the tree, all items visible, a fetch of depth 1 with no
\* parent path returns exactly comment 0; a fetch of depth 1 below comment 1
\* returns comment 1 itself first, then the comments 3 and 4, a distinguished
\* one first and otherwise in the order of the sort, and not comment 5.
C11_TreeScoping ==
  (TreeFetchDepth1 /\ TreeAllVisible) =>
     IF request.o.parent_path = <<>>
     THEN ListedSeq = <<comment_0>>
     ELSE /\ request.o.parent_path = comment[comment_1].path
          /\ Len(ListedSeq) = 3
          /\ ListedSeq[1] = comment_1
          /\ {ListedSeq[2], ListedSeq[3]} = {comment_3, comment_4}
          /\ ~LexLess(list_order_key(request.o, comment[ListedSeq[3]]),
                      list_order_key(request.o, comment[ListedSeq[2]]))

C11_Witness ==
  /\ TreeFetchDepth1 /\ TreeAllVisible
  /\ request.o.parent_path = comment[comment_1].path
  /\ request.o.sort = "New"
  /\ ListedSeq = <<comment_1, comment_4, comment_3>>

\* The path starts with the labels of parent_path.
HasPrefix(path, parent_path) ==
  /\ Len(parent_path) <= Len(path)
  /\ \A i \in 1..Len(parent_path) : path[i] = parent_path[i]

\* The path has at most len(parent_path) + max_depth labels, or max_depth + 1
\* with no parent_path.
WithinDepth(path) ==
  IF request.o.parent_path # <<>>
  THEN Len(path) - Len(request.o.parent_path) <= request.o.max_depth[1]
  ELSE Len(path) - 1 <= request.o.max_depth[1]

\* The comment is in the post, community and creator scope of the request.
InScope(c) ==
  /\ request.o.post_id # None => comment[c].post_id = request.o.post_id
  /\ request.o.creator_id # None => comment[c].creator_id = request.o.creator_id
  /\ request.o.community_id # None => CommunityOf(c) = request.o.community_id

\* The comments a tree fetch is to return.
TreeQualifying ==
  {c \in DOMAIN comment :
     /\ PassesOthers(c, {"scope", "depth"})
     /\ InScope(c)
     /\ HasPrefix(comment[c].path, request.o.parent_path)
     /\ WithinDepth(comment[c].path)}

\* C12 (as claimed): with max_depth = d a listed item's path has at most
\* len(parent_path) + d labels, or d + 1 with no parent_path; with a
\* parent_path every listed item's path starts with it; and a tree fetch
\* returns every visible item within these bounds while fewer than 300
\* qualify.
C12_Original ==
  pc = "listed" =>
     /\ request.o.max_depth # <<>> =>
          \A c \in ListedIds : WithinDepth(comment[c].path)
     /\ request.o.parent_path # <<>> =>
          \A c \in ListedIds : HasPrefix(comment[c].path, request.o.parent_path)
     /\ (request.o.max_depth # <<>> /\ Cardinality(TreeQualifying) < TREE_FETCH_LIMIT) =>
          TreeQualifying \subseteq ListedIds

\* C12 (where the code keeps it): the same, for every max_depth whose sum with
\* the number of labels of parent_path, or with 1, is an i32.
C12_DepthAndPrefixInRange ==
  (pc = "listed" /\ ~depth_limit_overflows(request.o)) => C12_Original

\* The fetch that fails: max_depth = i32::MAX, comments to return, none
\* returned.
C12_Overflow ==
  /\ pc = "listed"
  /\ request.o.max_depth = <<I32_MAX>>
  /\ TreeQualifying # {}
  /\ ListedIds = {}

C12_Witness ==
  /\ pc = "listed" /\ response.ok
  /\ request.o.max_depth = <<1>>
  /\ request.o.parent_path = comment[comment_1].path
  /\ TreeAllVisible
  /\ comment_3 \in ListedIds /\ comment_4 \in ListedIds
  /\ comment_5 \notin ListedIds /\ comment_2 \notin ListedIds

\* The caller's page or limit is one a flat listing rejects.
InvalidPageOrLimit ==
  \/ (request.o.page # <<>> /\ request.o.page[1] < 1)
  \/ (request.o.limit # <<>>
        /\ (request.o.limit[1] < 1 \/ request.o.limit[1] > FETCH_LIMIT_MAX))

\* C13: with max_depth set the caller's page and limit play no part: the
\* answer is never InvalidPagination, holds at most 300 items and, when it
\* is an answer, holds every row passing the filters from the first on; with
\* max_depth not set an invalid page or limit makes the call fail with
\* InvalidPagination and no item, and a valid one does not.
C13_TreeFetchIgnoresPaging ==
  pc = "listed" =>
     IF request.o.max_depth # <<>>
     THEN /\ response # InvalidPagination
          /\ Len(response.items) <= TREE_FETCH_LIMIT
          /\ response.ok =>
               ListedIds = {c \in DOMAIN comment : PassesOthers(c, {})}
     ELSE IF InvalidPageOrLimit
          THEN response = InvalidPagination /\ response.items = <<>>
          ELSE response.ok

C13_Witness ==
  /\ pc = "listed"
  /\ request.o.max_depth = <<2>>
  /\ InvalidPageOrLimit
  /\ response.ok
  /\ ListedIds = {comment_0, comment_1, comment_2}

\* The item at position i of the answer.
ItemAt(i) == comment[response.items[i].comment.id]

\* The path without its last label.
ParentPrefix(path) == SubSeq(path, 1, Len(path) - 1)

\* C14 (as claimed): in a listing scoped to a post, with or without max_depth
\* and parent_path, every distinguished item comes before every item that is
\* not distinguished.
C14_Original ==
  (pc = "listed" /\ request.o.post_id # None) =>
     \A i, j \in DOMAIN response.items :
        (ItemAt(i).distinguished /\ ~ItemAt(j).distinguished) => i < j

\* C14 (amended): in a listing scoped to a post, a distinguished item comes
\* before every item that is not distinguished when max_depth is not set;
\* when max_depth is set the rows are ordered by the parent-prefix of their
\* path first, and a distinguished item comes before the items that are not
\* distinguished among those with the same parent-prefix.
C14_DistinguishedFirst ==
  (pc = "listed" /\ request.o.post_id # None) =>
     \A i, j \in DOMAIN response.items :
        (/\ ItemAt(i).distinguished /\ ~ItemAt(j).distinguished
         /\ (request.o.max_depth = <<>>
               \/ ParentPrefix(ItemAt(i).path) = ParentPrefix(ItemAt(j).path)))
          => i < j

C14_Witness ==
  /\ pc = "listed" /\ request.o.post_id # None
  /\ request.o.max_depth = <<>> /\ request.o.sort = "Old"
  /\ Len(response.items) = Cardinality(DOMAIN comment)
  /\ ItemAt(1).id = comment_2 /\ ItemAt(1).distinguished
  /\ ItemAt(2).id = comment_0 /\ ~ItemAt(2).distinguished

\* The ids of page n of the walk.
PageIds(n) == {paging.pages[n][i] : i \in DOMAIN paging.pages[n]}

\* No id is on two pages of the walk.
PagesDisjoint ==
  \A m, n \in DOMAIN paging.pages : m # n => PageIds(m) \cap PageIds(n) = {}

\* The walk has reached a short page: there is no further page.
WalkDone ==
  /\ paging.pages # <<>>
  /\ Len(paging.pages[Len(paging.pages)]) < paging.o.limit[1]

\* No write has reached the store since the walk began.
FixedSnapshot == writes = paging.started_at

\* The pages of the walk hold every row of the listing once.
PagesExact ==
  /\ PagesDisjoint
  /\ WalkDone =>
       UNION {PageIds(n) : n \in DOMAIN paging.pages}
         = {c \in DOMAIN comment : PassesOthers(c, {})}

\* C15 (as claimed): under a fixed snapshot, for every sort and limit, the
\* pages of a flat listing hold every item of the unpaginated result exactly
\* once, also when items have equal ranking keys.
C15_Original ==
  (pc = "listed" /\ paging.pages # <<>> /\ FixedSnapshot) => PagesExact

\* No two rows have the same keys in the sort of the walk.
KeysUnique ==
  \A c, d \in DOMAIN comment :
     c # d => list_sort_key(paging.o, comment[c]) # list_sort_key(paging.o, comment[d])

\* C15 (where the code keeps it): the same, when no two items have equal
\* ranking keys.
C15_ExactWhenKeysUnique ==
  (pc = "listed" /\ paging.pages # <<>> /\ FixedSnapshot /\ KeysUnique) => PagesExact

\* The walk that fails: no write, and an id on two pages.
C15_Duplicate ==
  /\ pc = "listed" /\ FixedSnapshot
  /\ \E m, n \in DOMAIN paging.pages : m < n /\ PageIds(m) \cap PageIds(n) # {}

\* Every id of an issued page is still a row of the store: no write was to
\* an item of an issued page (a created comment is on no page when created).
IssuedUntouched ==
  \A n \in DOMAIN paging.pages : PageIds(n) \subseteq DOMAIN comment

\* C16 (as claimed, for the sorts New and Old, whose keys are unique): when
\* comments are created or deleted between the page requests of a walk and
\* none of them is on an issued page, the pages stay disjoint.
C16_Original ==
  (pc = "listed" /\ paging.o.sort \in {"New", "Old"} /\ KeysUnique /\ IssuedUntouched)
     => PagesDisjoint

\* C16 (where the code keeps it): under the sorts New and Old, when comments
\* not on an issued page are deleted, and none is created, the pages stay
\* disjoint.
C16_DisjointUnderDeletes ==
  (pc = "listed" /\ paging.o.sort \in {"New", "Old"} /\ IssuedUntouched
     /\ comment_id_seq = comment_5) => PagesDisjoint

\* The walk that fails: a comment created after page 1 of the newest
\* comments moves the last item of page 1 to page 2.
C16_Shifted ==
  /\ pc = "listed" /\ paging.o.sort = "New" /\ KeysUnique /\ IssuedUntouched
  /\ Len(paging.pages) = 2
  /\ paging.pages[1] = <<comment_5, comment_4>>
  /\ paging.pages[2][1] = comment_4
  /\ comment_id_seq > comment_5

\* Every item of the answer is, in the store as it is now, visible to the
\* viewer under each rule of the request, and is the store's row: its flags,
\* the viewer's block of its creator, and its body or, for a removed or
\* deleted item the viewer cannot moderate, the empty body.
C17_OneState ==
  \A v \in Items :
     LET c == v.comment.id
     IN /\ c \in DOMAIN comment
        /\ ReadVisible(c)
        /\ v.comment = [comment[c] EXCEPT !.content = v.comment.content]
        /\ v.comment.content \in {comment[c].content, ""}
        /\ v.comment.content = "" =>
             /\ comment[c].removed \/ comment[c].deleted
             /\ ~ViewerIsAdmin /\ ~ViewerModerates(c)
        /\ v.person_actions.blocked = CreatorBlocked(c)
        /\ pc = "listed" =>
             /\ comment[c].federation_pending => comment[c].creator_id = Me
             /\ (Viewer # None /\ request.o.listing_type # "ModeratorView"
                   /\ comment[c].creator_id # Me)
                  => (~CreatorBlocked(c) /\ ~CommunityInstanceBlocked(c))

\* C17: a list call and a read call are one request to the store: the step
\* that answers leaves the store as it is, and every item of the answer is
\* visible, and is the row, in that one store state, whatever writes came
\* before and come after.
C17_SingleRequest ==
  [][(pc = "idle" /\ pc' # "idle") => (store' = store /\ C17_OneState')]_vars

C17_Witness ==
  /\ pc = "read" /\ response.ok /\ writes = MaxWrites
  /\ ~ViewerIsAdmin
  /\ \E c \in ListedIds :
        community[CommunityOf(c)].visibility = "Private" /\ FollowAccepted(c)

\* The viewer's vote on the comment, in the store: 0 when there is none.
VoteOf(p, c) ==
  IF <<p, c>> \in DOMAIN comment_actions THEN comment_actions[<<p, c>>].like_score ELSE 0

\* Every listed item is by someone else and has this vote of the viewer.
OnlyVoted(like_score) ==
  \A c \in ListedIds :
     /\ VoteOf(Me, c) = like_score
     /\ comment[c].creator_id # Me

\* C18: for an authenticated viewer liked_only lists only what the viewer
\* liked of other authors, with or without disliked_only, and the answer is
\* the one of the same request without disliked_only; disliked_only alone
\* lists only what the viewer disliked of other authors; for an
\* unauthenticated caller the answer is the one without the two flags.
C18_LikedOnlyWins ==
  (pc = "listed" /\ response.ok) =>
     LET o == request.o
     IN /\ (Me # None /\ o.liked_only) =>
             /\ OnlyVoted(1)
             /\ response \in list([o EXCEPT !.disliked_only = FALSE], request.site)
        /\ (Me # None /\ ~o.liked_only /\ o.disliked_only) => OnlyVoted(-1)
        /\ Me = None =>
             response \in list([o EXCEPT !.liked_only = FALSE, !.disliked_only = FALSE],
                               request.site)

C18_Witness ==
  /\ pc = "listed" /\ response.ok
  /\ Me # None /\ request.o.liked_only /\ request.o.disliked_only
  /\ ListedIds # {}

\* The viewer has a follow of the comment's community, accepted or not.
ViewerFollows(c) ==
  Me # None /\ community_actions[<<Me, CommunityOf(c)>>].followed

\* The ids the same request lists with another listing type.
ListedIdsWith(listing_type) ==
  UNION {{res.items[i].comment.id : i \in DOMAIN res.items} :
           res \in list([request.o EXCEPT !.listing_type = listing_type], request.site)}

\* C19: every listed item satisfies the listing type: Subscribed, the viewer
\* follows its community; Local, its community is local; ModeratorView, the
\* viewer moderates its community; All adds nothing, so it lists whatever the
\* same request lists as Local or Subscribed.  Subscribed and ModeratorView
\* without a viewer list nothing.
C19_ListingType ==
  (pc = "listed" /\ response.ok) =>
     LET lt == request.o.listing_type
     IN /\ lt = "Subscribed" => \A c \in ListedIds : ViewerFollows(c)
        /\ lt = "Local" => \A c \in ListedIds : community[CommunityOf(c)].local
        /\ lt = "ModeratorView" => \A c \in ListedIds : ViewerModerates(c)
        /\ lt = "All" =>
             ListedIdsWith("Local") \cup ListedIdsWith("Subscribed") \subseteq ListedIds
        /\ (Viewer = None /\ lt \in {"Subscribed", "ModeratorView"}) => ListedIds = {}

C19_Witness ==
  /\ pc = "listed" /\ response.ok
  /\ request.o.listing_type = "Subscribed"
  /\ ListedIds # {}
  /\ \E c \in DOMAIN comment : ~ViewerFollows(c) /\ ~community[CommunityOf(c)].local

\* The entries of the six lists of the last backup sent.
BackupEntries ==
  LET d == backup_import.data
  IN BagCardinality(d.followed_communities) + d.blocked_communities + d.blocked_users
       + d.blocked_instances + d.saved_posts + d.saved_comments

NothingImported == \A k \in DOMAIN BackupLists : backup_import.imported[k] = 0

\* C20: when the six lists of the backup hold more than
\* MAX_API_PARAM_ELEMENTS entries together, the import is answered with
\* TooManyItems, no import task is started for it, now or later, and none
\* of the entries is imported.
C20_TooManyItems ==
  BackupEntries > MAX_API_PARAM_ELEMENTS =>
     /\ backup_import.task = 0
     /\ NothingImported
     /\ pc = "imported" => response = TooManyItems

\* The backup of tests::disallow_large_backup, refused.
C20_Witness ==
  /\ pc = "imported" /\ response = TooManyItems
  /\ backup_import.data.followed_communities = (0 :> 2501)
  /\ backup_import.data.blocked_communities = 2501
  /\ backup_import.data.saved_posts = 2501
  /\ backup_import.data.saved_comments = 2501
  /\ backup_import.data.blocked_users = 0
  /\ backup_import.data.blocked_instances = 0

\* The keys ordered by before the sort are the same for the two rows: the
\* parent-prefix in a tree fetch of a post or a subtree, the distinguished
\* flag in a listing of a post or a subtree.
SameEarlierKeys(a, b) ==
  LET scoped == request.o.post_id # None \/ request.o.parent_path # <<>>
  IN /\ (scoped /\ request.o.max_depth # <<>>) => ParentPrefix(a.path) = ParentPrefix(b.path)
     /\ scoped => a.distinguished = b.distinguished

\* Row a may come before row b under the sort.
SortedPair(sort, a, b) ==
  CASE sort \in {"Hot", "None"} ->
         \/ a.hot_rank > b.hot_rank
         \/ (a.hot_rank = b.hot_rank /\ a.score >= b.score)
    [] sort = "Controversial" -> a.controversy_rank >= b.controversy_rank
    [] sort = "New" -> a.published >= b.published
    [] sort = "Old" -> a.published <= b.published
    [] sort = "Top" -> a.score >= b.score

Scoped == request.o.post_id # None \/ request.o.parent_path # <<>>
ScopedTreeFetch == Scoped /\ request.o.max_depth # <<>>

\* Path p is ordered before path q: at the first label where they differ p
\* has the smaller one, or p is a proper prefix of q.  (The labels of the
\* model have one digit, so their order as text is their order as numbers.)
PrefixBefore(p, q) ==
  \E k \in 1..(Len(p) + 1) :
     /\ k <= Len(q)
     /\ \A n \in 1..(k - 1) : p[n] = q[n]
     /\ (k = Len(p) + 1 \/ p[k] < q[k])

\* Items i < j are in the order of the distinguished flag, then of the sort.
RankedPair(a, b) ==
  /\ Scoped => (a.distinguished \/ ~b.distinguished)
  /\ (~Scoped \/ a.distinguished = b.distinguished) => SortedPair(request.o.sort, a, b)

\* C24 (as claimed): in a tree fetch of a post or subtree the parent-prefix
\* is a secondary key, after the distinguished flag and the ranking.
C24_Original ==
  (pc = "listed" /\ response.ok /\ ScopedTreeFetch) =>
     \A i, j \in DOMAIN response.items :
        i < j => RankedPair(ItemAt(i), ItemAt(j))

\* C24 (amended): the ordering by the parent-prefix is applied exactly in a
\* tree fetch (max_depth set) scoped by post_id or parent_path, and there it
\* is the first key, before the distinguished flag and the ranking; in every
\* other listing the order is the one of the distinguished flag and the
\* ranking alone, whatever the parent-prefixes.
C24_ParentPrefixFirst ==
  (pc = "listed" /\ response.ok) =>
     \A i, j \in DOMAIN response.items :
        i < j =>
          IF ScopedTreeFetch
          THEN ParentPrefix(ItemAt(i).path) # ParentPrefix(ItemAt(j).path)
                 => PrefixBefore(ParentPrefix(ItemAt(i).path), ParentPrefix(ItemAt(j).path))
          ELSE RankedPair(ItemAt(i), ItemAt(j))

\* A tree fetch of the post whose parent-prefix order goes against the
\* distinguished flag.
C24_Witness ==
  /\ pc = "listed" /\ response.ok /\ ScopedTreeFetch
  /\ \E i, j \in DOMAIN response.items :
        /\ i < j
        /\ ~ItemAt(i).distinguished /\ ItemAt(j).distinguished
        /\ PrefixBefore(ParentPrefix(ItemAt(i).path), ParentPrefix(ItemAt(j).path))

\* A tree fetch without post and parent, not ordered by the parent-prefix.
C24_UnscopedReached ==
  /\ pc = "listed" /\ response.ok /\ ~Scoped /\ request.o.max_depth # <<>>
  /\ \E i, j \in DOMAIN response.items :
        i < j /\ PrefixBefore(ParentPrefix(ItemAt(j).path), ParentPrefix(ItemAt(i).path))

\* The step is an import_settings call; its backup and its user.
ImportCall == pc = "idle" /\ pc' = "imported"
ImportData == backup_import'.data
Importer == backup_import'.person_id

\* The value a field has after the import when the backup's field is the
\* one given: the backup's value when present, the stored one otherwise.
Imported(field, stored) == IF field # <<>> THEN field ELSE stored

\* The profile fields but the matrix id, and the settings, follow the backup.
ImportFrame ==
  /\ person'[Importer].display_name
       = Imported(ImportData.display_name, person[Importer].display_name)
  /\ person'[Importer].bio = Imported(ImportData.bio, person[Importer].bio)
  /\ person'[Importer].bot_account
       = Imported(ImportData.bot_account, <<person[Importer].bot_account>>)[1]
  /\ \A f \in {"show_nsfw", "show_bot_accounts"} :
        local_user'[Importer][f]
          = IF ImportData.settings # <<>> THEN ImportData.settings[1][f]
            ELSE local_user[Importer][f]
  /\ \A q \in PersonIds \ {Importer} : person'[q] = person[q] /\ local_user'[q] = local_user[q]

\* C21 (as claimed): an import sets each profile and settings field the
\* backup has to the backup's value and leaves every other field as it was.
C21_Original ==
  [][ImportCall =>
       /\ ImportFrame
       /\ person'[Importer].matrix_user_id
            = Imported(ImportData.matrix_id, person[Importer].matrix_user_id)]_vars

\* C21 (what the code does): the claim holds of every field but the matrix
\* id, which is set from the backup's bio and never from its matrix_id.
C21_FrameButMatrixId ==
  [][ImportCall =>
       /\ ImportFrame
       /\ person'[Importer].matrix_user_id
            = Imported(ImportData.bio, person[Importer].matrix_user_id)]_vars

\* A backup with a bio and no matrix id has overwritten the matrix id.
C21_MatrixIdFromBio ==
  /\ pc = "imported" /\ response.ok
  /\ backup_import.data.matrix_id = <<>>
  /\ backup_import.data.bio = <<"larry bio">>
  /\ person[backup_import.person_id].matrix_user_id = <<"larry bio">>

\* The communities the person follows, whatever the state of the follow.
Follows(p) == {c \in CommunityIds : community_actions[<<p, c>>].followed}

\* The last import was of the backup exported for a, by another user.
RoundTrip(a) ==
  /\ backup_import.person_id \notin {None, a}
  /\ backup_import.data = export_settings(a)

ImportFinished == backup_import.task = Len(BackupLists) + 1

\* C22 (as claimed): after export for A, import for B and the end of the
\* task, B's display_name and bio are A's and B follows exactly what A
\* followed at export time.
C22_Original ==
  \A a \in PersonIds :
     (RoundTrip(a) /\ ImportFinished) =>
        LET b == backup_import.person_id
        IN /\ person[b].display_name = person[a].display_name
           /\ person[b].bio = person[a].bio
           /\ Follows(b) = DOMAIN backup_import.data.followed_communities

\* C22 (amended): the import of A's exported backup for another user B sets
\* B's display_name and bio to A's where A has them and leaves them where A
\* has none; the task's step for the followed communities keeps what B
\* followed, adds only communities of the backup, and adds them all when
\* every entry was imported.
C22_RoundTrip ==
  [][/\ \A a \in PersonIds :
          (ImportCall /\ Importer # a /\ ImportData = export_settings(a)) =>
             /\ person'[Importer].display_name
                  = Imported(person[a].display_name, person[Importer].display_name)
             /\ person'[Importer].bio = Imported(person[a].bio, person[Importer].bio)
     /\ (backup_import.task = 1 /\ backup_import'.task = 2) =>
          LET b == backup_import.person_id
              listed == DOMAIN backup_import.data.followed_communities
          IN /\ Follows(b) \subseteq Follows(b)'
             /\ Follows(b)' \subseteq Follows(b) \cup listed
             /\ backup_import'.imported[1] = BagCardinality(backup_import.data.followed_communities)
                  => Follows(b)' = Follows(b) \cup listed]_vars

\* The round trip of the test, for an importing user who followed another
\* community before.
C22_Witness ==
  /\ RoundTrip(export_user) /\ ImportFinished
  /\ backup_import.person_id = import_user
  /\ person[export_user].display_name = <<"hanna">>
  /\ person[import_user].display_name = <<"hanna">>
  /\ person[export_user].bio = <<>>
  /\ person[import_user].bio = <<"charles bio">>
  /\ Follows(export_user) = {1}
  /\ Follows(import_user) = {1, 2}

\* C27 (as claimed): a call rejected with TooManyItems leaves the profile
\* and the settings of every user as they were.
C27_Original ==
  [][(ImportCall /\ response' = TooManyItems) =>
        (person' = person /\ local_user' = local_user)]_vars

\* C27 (what the code does): a rejected call leaves the lists alone; the
\* profile and the settings of the importing user are updated as by an
\* accepted call.
C27_RejectedKeepsLists ==
  [][(ImportCall /\ response' = TooManyItems) =>
        /\ ImportFrame
        /\ community_actions' = community_actions
        /\ person_actions' = person_actions
        /\ instance_actions' = instance_actions]_vars

\* The rejected import has changed the profile.
C27_RejectedButChanged ==
  /\ pc = "imported" /\ response = TooManyItems
  /\ backup_import.person_id = import_user
  /\ backup_import.data.display_name = <<"hanna">>
  /\ person[import_user].display_name = <<"hanna">>

\* C28 (as claimed): after the import of A's exported backup for B, B's
\* matrix id is A's.
C28_Original ==
  \A a \in PersonIds :
     (RoundTrip(a) /\ pc = "imported" /\ response.ok) =>
        person[backup_import.person_id].matrix_user_id = person[a].matrix_user_id

\* C28 (what the code does): B's matrix id is A's bio where A has one, and
\* B's own matrix id otherwise.
C28_MatrixIdIsBio ==
  [][\A a \in PersonIds :
        (ImportCall /\ Importer # a /\ ImportData = export_settings(a)) =>
           person'[Importer].matrix_user_id
             = Imported(person[a].bio, person[Importer].matrix_user_id)]_vars

\* A has a bio and a matrix id; B's matrix id is A's bio.
C28_BioAsMatrixId ==
  /\ RoundTrip(export_user) /\ pc = "imported" /\ response.ok
  /\ backup_import.person_id = import_user
  /\ person[export_user].bio = <<"my bio">>
  /\ person[export_user].matrix_user_id = <<"@hanna:example.com">>
  /\ person[import_user].matrix_user_id = <<"my bio">>

\* The objects import_fn was called on, those whose import failed, and
\* those the report names.
Called == {fetch.called[i] : i \in DOMAIN fetch.called}
Objects == {fetch.objects[i] : i \in DOMAIN fetch.objects}
Reported == {fetch.failed_items[i] : i \in DOMAIN fetch.failed_items}

\* C25: never more than PARALLELISM imports are in flight, import_fn is
\* called at most once on an object and, when the fetch is done, once on
\* every object, whatever the order of completion and whichever imports
\* failed.
C25_BoundedOnce ==
  /\ Cardinality(fetch.in_flight) <= PARALLELISM
  /\ \A i, j \in DOMAIN fetch.called : fetch.called[i] = fetch.called[j] => i = j
  /\ Called \subseteq Objects
  /\ fetch.done => (Called = Objects /\ Len(fetch.results) = Len(fetch.objects))

\* PARALLELISM imports in flight, objects waiting, an import has failed.
C25_Witness ==
  /\ Cardinality(fetch.in_flight) = PARALLELISM
  /\ Len(fetch.called) < Len(fetch.objects)
  /\ TRUE \in {fetch.results[i] : i \in DOMAIN fetch.results}

\* C26 (as claimed): the report names exactly the objects whose import
\* failed.
C26_Original == fetch.done => Reported = fetch.fails

\* C26 (what the code does): the report has as many entries as imports
\* failed; they are the objects at the positions, in the order of
\* completion, of the failed imports.
C26_ReportCounts ==
  fetch.done =>
     /\ Len(fetch.failed_items) = Cardinality(fetch.fails)
     /\ \A i \in DOMAIN fetch.results :
           fetch.results[i] <=> fetch.objects[i] \in Reported

\* The first of two imports fails and completes last: the report names the
\* second object, whose import succeeded.
C26_WrongObject ==
  /\ fetch.done
  /\ fetch.objects = <<1, 2>> /\ fetch.fails = {1}
  /\ fetch.failed_items = <<2>>

\* The rows of the mod log for this flag of the post, by their position.
FeatureRows(p, is_community) ==
  {i \in DOMAIN mod_feature_post :
     /\ mod_feature_post[i].post_id = p
     /\ mod_feature_post[i].is_featured_community = is_community}

Greatest(S) == CHOOSE i \in S : \A j \in S : j <= i

\* The value the mod log gives the flag: the one of its last row for it, or
\* the value at creation when there is none.
LoggedFlag(p, is_community) ==
  IF FeatureRows(p, is_community) = {} THEN FALSE
  ELSE mod_feature_post[Greatest(FeatureRows(p, is_community))].featured

\* C29 (as claimed): every change of a featured flag is matched by a mod
\* log row: each flag has the value its last row gives it, and the value at
\* creation when it has no row.
C29_Original ==
  \A p \in PostIds :
     /\ post[p].featured_community = LoggedFlag(p, TRUE)
     /\ post[p].featured_local = LoggedFlag(p, FALSE)

\* C29 (what the code does): a call that succeeds leaves the flag, the last
\* row of the mod log and the last activity in agreement.
C29_LoggedOnSuccess ==
  (pc = "featured" /\ response.ok) =>
     LET data == request.data
         last == mod_feature_post[Len(mod_feature_post)]
     IN /\ mod_feature_post # <<>> /\ activity_queue # <<>>
        /\ last.post_id = data.post_id /\ last.featured = data.featured
        /\ last.is_featured_community = (data.feature_type = "Community")
        /\ last.mod_person_id = Me
        /\ post[data.post_id].featured_community = LoggedFlag(data.post_id, TRUE)
             \/ data.feature_type = "Local"
        /\ post[data.post_id].featured_local = LoggedFlag(data.post_id, FALSE)
             \/ data.feature_type = "Community"

\* The post is featured and the mod log is empty.
C29_Unlogged ==
  /\ pc = "featured" /\ response = FeatureError("ModFeaturePost::create")
  /\ post[request.data.post_id].featured_community
  /\ mod_feature_post = <<>>

\* The caller of the step may feature the post this way: a moderator of its
\* community or an admin, and an admin for the local site.
MayFeature(u, data) ==
  LET me == local_user[u].person_id
      c == post[data.post_id].community_id
  IN /\ local_user[u].admin \/ community_actions[<<me, c>>].became_moderator
     /\ data.feature_type = "Local" => local_user[u].admin

\* C30: a call by a caller who may not feature the post this way returns an
\* error and changes neither the posts nor the mod log nor the activity
\* queue; a call that succeeds sets the flag of its feature_type to the
\* value asked for and leaves the other flag and the other posts alone.
C30_AuthorisedOnly ==
  [][(pc = "idle" /\ pc' = "featured") =>
       LET data == request'.data
           u == request'.o.local_user
       IN /\ ~MayFeature(u, data) =>
               /\ ~response'.ok
               /\ post' = post
               /\ mod_feature_post' = mod_feature_post
               /\ activity_queue' = activity_queue
          /\ response'.ok =>
               /\ \A p \in PostIds \ {data.post_id} : post'[p] = post[p]
               /\ post'[data.post_id] =
                    IF data.feature_type = "Community"
                    THEN [post[data.post_id] EXCEPT !.featured_community = data.featured]
                    ELSE [post[data.post_id] EXCEPT !.featured_local = data.featured]]_vars

\* A moderator who is no admin asked to feature a post on the local site
\* and was refused; another call had featured it in its community.
C30_Witness ==
  /\ pc = "featured" /\ ~response.ok
  /\ request.data.feature_type = "Local" /\ request.data.featured
  /\ ~local_user[Viewer].admin
  /\ community_actions[<<Me, post[request.data.post_id].community_id>>].became_moderator
  /\ ~post[request.data.post_id].featured_local
  /\ mod_feature_post = <<>>

====
